---- MODULE Spec2Model ----
(***************************************************************************)
(* Model of the startup migration runner of eduvium-api                    *)
(* (src/server/seed.ts, runMigrations and the steps it awaits) against a   *)
(* relational store whose base schema is server/create_schema.sql          *)
(* (carried in src/server/supabase-storage.ts, lines 307-686).             *)
(*                                                                         *)
(* Every step is one action.  A step takes one input, `fault`: the label   *)
(* of the statement of that step that the store fails in this execution    *)
(* ("none": no statement is failed from outside).  Statements also fail    *)
(* on their own when the store cannot execute them (missing relation,      *)
(* unknown enum label, unique violation).  The startup function of the    *)
(* two entry points (src/server/index.ts, src/server/index-api.ts) awaits  *)
(* runMigrations, then registers the routes and listens.                   *)
(*                                                                         *)
(* Spec: invocations of runMigrations, one after the other, on one store.  *)
(* StartupSpec: server processes, each running its startup function.       *)
(* StepSpec: one step called on a store of a family of stores.             *)
(* RestartSpec: endless restarts on a store with the base schema, every    *)
(* runner action weakly fair.                                              *)
(* ConcSpec: two runner instances on one store at the same time, their     *)
(* statements interleaved.                                                 *)
(***************************************************************************)
EXTENDS Integers, Sequences, FiniteSets, TLC

VARIABLES db, buckets, pc, run, outcome, faults, started, log, ensured, prev,
          proc, inst

vars ==
  <<db, buckets, pc, run, outcome, faults, started, log, ensured, prev, proc,
    inst>>

\* ------------------------------------------------------------------ bounds
\* number of process startups (runMigrations invocations) explored
MaxRuns == 2
\* number of statements the store fails from outside, over all startups
MaxFaults == 1

\* ------------------------------------------------------- program constants
MIGRATION_TRACKING_TABLE == "migration_status"
HARDCODED_USER_ID == "3f62dec4"
\* maxYear = startYear + 30
CycleHorizon == 30
\* the range of an INTEGER column
IntMax == 2147483647
IntMin == -IntMax - 1

\* the steps of runMigrations in the order they are awaited
CriticalSteps ==
  << "createBaseSchema", "ensureSessionTable", "addDrawingCategoryEnumValues",
     "seedSchoolsAndBoards" >>

NonCriticalSteps ==
  << "seedHardcodedAdminUser", "assignUsersToSchools",
     "ensureSupabaseBucketsForSchools", "recalculateBudgetSpentAmounts",
     "createRoomsAndTerrainTables", "addMaxStudentsToRooms",
     "createFoldersAndExtendDocuments", "createInvestmentYearsTable",
     "fixInvalidDrawingCategories", "populateInvestmentYears",
     "addAttachmentColumnsToReportsAndMaintenance", "extendRoleEnumForRbac",
     "fixJeanAdminRole" >>

StepOrder == CriticalSteps \o NonCriticalSteps

Range(s) == { s[i] : i \in DOMAIN s }

Steps == Range(StepOrder)

IsCritical(s) == s \in Range(CriticalSteps)

StepIndex(s) == CHOOSE i \in DOMAIN StepOrder : StepOrder[i] = s

\* the const migrationName of each step that has one
MigrationName ==
  [ createBaseSchema |-> "create_base_schema",
    addDrawingCategoryEnumValues |-> "add_all_drawing_category_enum_values",
    seedSchoolsAndBoards |-> "seed_schools_and_boards",
    recalculateBudgetSpentAmounts |-> "recalculate_budget_spent_amounts",
    createRoomsAndTerrainTables |-> "create_rooms_and_terrain_tables",
    addMaxStudentsToRooms |-> "add_max_students_to_rooms",
    createFoldersAndExtendDocuments |-> "create_folders_and_extend_documents",
    createInvestmentYearsTable |-> "create_investment_years_table",
    fixInvalidDrawingCategories |-> "fix_invalid_drawing_categories",
    populateInvestmentYears |-> "populate_investment_years",
    addAttachmentColumnsToReportsAndMaintenance |->
      "add_attachment_columns_to_reports_and_maintenance",
    extendRoleEnumForRbac |-> "extend_role_enum_for_rbac",
    fixJeanAdminRole |-> "fix_jean_admin_role_v2" ]

\* steps that record a name with markMigrationComplete
TrackedSteps == DOMAIN MigrationName

\* steps whose body is guarded by `if (await hasMigrationRun(migrationName)) return`
GuardedSteps == TrackedSteps \ {"createBaseSchema", "seedSchoolsAndBoards"}

AllMigrationNames == { MigrationName[s] : s \in TrackedSteps }

\* ------------------------------------------------------------- the store
\* relations and enum types created by create_schema.sql
BaseTables ==
  { "boards", "schools", "sessions", "users", "user_schools", "maintenance",
    "reports", "building_data", "drawings", "budget_categories", "documents",
    "investments", "maintenance_history" }

SchemaRoleLabels == {"admin", "directeur", "medewerker"}

SchemaDrawingLabels ==
  {"bouwkundig", "w-installatie", "e-installatie", "terrein", "overig"}

\* a nullable integer column: <<>> is NULL, <<n>> is the value n
IsNull(v) == v = <<>>

Val(v) == v[1]

\* LOWER() on the text values the model uses
Lower(s) ==
  CASE s = "HVAC" -> "hvac"
    [] s = "Hvac" -> "hvac"
    [] s = "Dak" -> "dak"
    [] s = "Jean@DeRuiterPartners.nl" -> "jean@deruiterpartners.nl"
    [] OTHER -> s

Has(d, t) == t \in d.tables

HasAll(d, ts) == ts \subseteq d.tables


\* ------------------------------------------------------- a step's result
\* db: the store after the step; thrown: the step rejected; skipped: it
\* returned at its hasMigrationRun guard; bodyRan: it went past its guards
\* into its body; writes: DDL and data-write statements it issued outside
\* the tracking table; errors: statements that failed (caught or not);
\* checkErr: the hasMigrationRun query failed; markFailed: the
\* markMigrationComplete insert failed.
Result(d, t, ran, w, e) ==
  [ db |-> d, thrown |-> t, skipped |-> FALSE, bodyRan |-> ran, writes |-> w,
    errors |-> e, checkErr |-> FALSE, markFailed |-> FALSE ]

Return(d, ran, w) == Result(d, FALSE, ran, w, 0)

Throw(d, ran, w) == Result(d, TRUE, ran, w, 1)

\* ------------------------------------------------- migration tracking store
TrackedNames(d) == { r.name : r \in d.tracking }

\* variant of ensureMigrationTable: the catch does not rethrow
ensureMigrationTableSwallowed(d, fault) ==
  IF fault = "ensure"
    THEN Return(d, FALSE, 0)
    ELSE Return([d EXCEPT !.tables = @ \cup {MIGRATION_TRACKING_TABLE}], FALSE, 0)

\* CREATE TABLE IF NOT EXISTS migration_status; rethrows
ensureMigrationTable(d, fault) ==
  IF fault = "ensure"
    THEN Throw(d, FALSE, 0)
    ELSE Return([d EXCEPT !.tables = @ \cup {MIGRATION_TRACKING_TABLE}], FALSE, 0)

\* the SELECT of hasMigrationRun fails: from outside, or no such relation
HasRunQueryFails(d, fault) ==
  fault = "hasRun" \/ ~Has(d, MIGRATION_TRACKING_TABLE)

\* variants of hasMigrationRun: the catch answers true; the query matches
\* no row
hasMigrationRunFailClosed(d, name, fault) ==
  HasRunQueryFails(d, fault) \/ name \in TrackedNames(d)

hasMigrationRunNoMatch(d, name, fault) == FALSE

\* result.rows.length > 0; the catch returns false
hasMigrationRun(d, name, fault) ==
  IF HasRunQueryFails(d, fault) THEN FALSE ELSE name \in TrackedNames(d)

MarkFails(d, fault) == fault = "mark" \/ ~Has(d, MIGRATION_TRACKING_TABLE)

\* variants of markMigrationComplete: ON CONFLICT (name) DO UPDATE; no
\* ON CONFLICT clause
markMigrationCompleteUpsert(d, name, now, fault) ==
  IF MarkFails(d, fault)
    THEN [db |-> d, thrown |-> TRUE]
    ELSE [db |-> [d EXCEPT !.tracking =
                     { r \in @ : r.name # name }
                       \cup {[name |-> name, executed_at |-> now]}],
          thrown |-> FALSE]

markMigrationCompleteNoConflictClause(d, name, now, fault) ==
  IF MarkFails(d, fault) \/ name \in TrackedNames(d)
    THEN [db |-> d, thrown |-> TRUE]
    ELSE [db |-> [d EXCEPT !.tracking =
                     @ \cup {[name |-> name, executed_at |-> now]}],
          thrown |-> FALSE]

\* INSERT ... VALUES (name, NOW()) ON CONFLICT (name) DO NOTHING; rethrows
markMigrationComplete(d, name, now, fault) ==
  IF MarkFails(d, fault)
    THEN [db |-> d, thrown |-> TRUE]
    ELSE [db |-> [d EXCEPT !.tracking =
                     IF name \in TrackedNames(d) THEN @
                     ELSE @ \cup {[name |-> name, executed_at |-> now]}],
          thrown |-> FALSE]

\* `await markMigrationComplete(name)` as the last statement of a body that
\* issued w writes: its rejection is the step's rejection
MarkAndReturn(d, name, now, fault, w) ==
  LET m == markMigrationComplete(d, name, now, fault)
  IN  IF m.thrown
        THEN [Throw(d, TRUE, w) EXCEPT !.markFailed = TRUE]
        ELSE Return(m.db, TRUE, w)

\* the early return of a guarded step
Skipped(d) == [Return(d, FALSE, 0) EXCEPT !.skipped = TRUE]

\* ---------------------------------------------------------- createBaseSchema
\* server/create_schema.sql, sent as one multi-statement query: the enum
\* types are created unless they exist, the relations unless they exist;
\* `role role NOT NULL DEFAULT 'user'` of users needs the label 'user'.
SchemaSQLFails(d) ==
  LET roleLabels == IF d.roleEnum = {} THEN SchemaRoleLabels ELSE d.roleEnum
  IN  ~Has(d, "users") /\ "user" \notin roleLabels

ExecSchemaSQL(d) ==
  [d EXCEPT !.tables = @ \cup BaseTables,
            !.objs = @ \cup {"IDX_session_expire"},
            !.roleEnum = IF @ = {} THEN SchemaRoleLabels ELSE @,
            !.drawingEnum = IF @ = {} THEN SchemaDrawingLabels ELSE @]

createBaseSchema(d, fault, now) ==
  IF fault = "check"
    \* the information_schema query fails
    THEN Throw(d, FALSE, 0)
    ELSE IF Has(d, "schools")
      \* schemaExists: try { markMigrationComplete } catch { }, return
      THEN LET m == markMigrationComplete(d, "create_base_schema", now, fault)
           IN  [Return(m.db, FALSE, 0) EXCEPT
                  !.markFailed = m.thrown,
                  !.errors = IF m.thrown THEN 1 ELSE 0]
      \* hasMigrationRun is consulted for a log line only; the schema is
      \* created whatever it answers
      ELSE IF fault = "nofile"
        THEN [Throw(d, TRUE, 0) EXCEPT
                !.checkErr = HasRunQueryFails(d, fault)]
        ELSE IF fault = "body1" \/ SchemaSQLFails(d)
          THEN [Throw(d, TRUE, 1) EXCEPT
                  !.checkErr = HasRunQueryFails(d, fault)]
          ELSE [MarkAndReturn(ExecSchemaSQL(d), "create_base_schema", now,
                              fault, 1) EXCEPT
                  !.checkErr = HasRunQueryFails(d, fault),
                  !.errors = @ + (IF HasRunQueryFails(d, fault) THEN 1 ELSE 0)]

\* -------------------------------------------------------- ensureSessionTable
\* three statements; an error whose message includes 'already exists' is
\* swallowed by the catch, any other is rethrown.  Faults "s2ae" is such an
\* error at the second statement.
ensureSessionTable(d, fault) ==
  IF fault = "s1"
    THEN Throw(d, TRUE, 1)
    ELSE LET d1 == [d EXCEPT !.tables = @ \cup {"session"}]
         IN  IF fault = "s2"
               THEN Throw(d1, TRUE, 2)
               ELSE IF fault = "s2ae"
                 THEN Result(d1, FALSE, TRUE, 2, 1)
                 ELSE LET d2 == [d1 EXCEPT !.objs = @ \cup {"session_pkey"}]
                      IN  IF fault = "s3"
                            THEN Throw(d2, TRUE, 3)
                            ELSE Return([d2 EXCEPT !.objs =
                                           @ \cup {"IDX_session_expire"}],
                                        TRUE, 3)

\* ----------------------------------------------- addDrawingCategoryEnumValues
enumValues == << "terrein", "overig", "veiligheid", "afwerking" >>

\* the statement that fault label "body<k>" fails
FaultIndex(fault) ==
  CASE fault = "body1" -> 1
    [] fault = "body2" -> 2
    [] fault = "body3" -> 3
    [] OTHER -> 0

\* the DO block of one value: ALTER TYPE ... ADD VALUE unless pg_enum has the
\* label; with no type drawing_category the ALTER TYPE fails
RECURSIVE AddEnumValues(_, _, _)
AddEnumValues(d, i, failAt) ==
  IF i > Len(enumValues)
    THEN [db |-> d, thrown |-> FALSE, writes |-> i - 1]
    ELSE IF i = failAt \/ d.drawingEnum = {}
      THEN [db |-> d, thrown |-> TRUE, writes |-> i]
      ELSE AddEnumValues([d EXCEPT !.drawingEnum = @ \cup {enumValues[i]}],
                         i + 1, failAt)

addDrawingCategoryEnumValues(d, fault, now) ==
  LET b == AddEnumValues(d, 1, FaultIndex(fault))
      r == IF hasMigrationRun(d, "add_all_drawing_category_enum_values", fault)
             THEN Skipped(d)
             ELSE IF b.thrown
               THEN Throw(b.db, TRUE, b.writes)
               ELSE MarkAndReturn(b.db, "add_all_drawing_category_enum_values",
                                  now, fault, b.writes)
  IN  [r EXCEPT !.checkErr = HasRunQueryFails(d, fault),
                !.errors = @ + (IF HasRunQueryFails(d, fault) THEN 1 ELSE 0)]

\* ------------------------------------------------------- seedSchoolsAndBoards
SeedBoards ==
  { [id |-> "16f34a48", name |-> "Hervormde Scholen"],
    [id |-> "4fce4dc9", name |-> "VPCO"] }

SeedSchools ==
  { [id |-> "1d09ec9f-8177", name |-> "De Appelgaard", board_id |-> "16f34a48"],
    [id |-> "655a2de6-a5a9", name |-> "De Hoeksteen", board_id |-> "16f34a48"],
    [id |-> "14d3ab65-e849", name |-> "De Horizon", board_id |-> "16f34a48"],
    [id |-> "7ffa2b7b-2d71", name |-> "Ichtus", board_id |-> "16f34a48"],
    [id |-> "099237d5-89eb", name |-> "Maranatha", board_id |-> "16f34a48"],
    [id |-> "3aaf933c-1b0f", name |-> "Rehoboth", board_id |-> "16f34a48"],
    [id |-> "1921acbb-cb38", name |-> "Olijfboom", board_id |-> "4fce4dc9"],
    [id |-> "2e39cec0-0213", name |-> "School a", board_id |-> "NULL"],
    [id |-> "9e277fdf-7db8", name |-> "Test Omgeving", board_id |-> "NULL"] }

\* INSERT ... ON CONFLICT (id) DO NOTHING
InsertById(rows, new) ==
  rows \cup { r \in new : r.id \notin { x.id : x \in rows } }

\* variant of seedSchoolsAndBoards: the two INSERTs are sent whatever the
\* schools relation holds
seedSchoolsAndBoardsUnconditional(d, fault, now) ==
  IF fault = "check" \/ ~Has(d, "schools")
    THEN Throw(d, FALSE, 0)
    ELSE IF fault = "body1" \/ ~Has(d, "boards")
      THEN Throw(d, TRUE, 1)
      ELSE LET d1 == [d EXCEPT !.boards = InsertById(@, SeedBoards)]
           IN  IF fault = "body2"
                 THEN Throw(d1, TRUE, 2)
                 ELSE MarkAndReturn(
                        [d1 EXCEPT !.schools = InsertById(@, SeedSchools)],
                        "seed_schools_and_boards", now, fault, 2)

seedSchoolsAndBoards(d, fault, now) ==
  IF fault = "check" \/ ~Has(d, "schools")
    \* SELECT COUNT(*) FROM schools fails
    THEN Throw(d, FALSE, 0)
    ELSE IF d.schools # {}
      \* hasSchools: mark and return
      THEN LET m == markMigrationComplete(d, "seed_schools_and_boards", now, fault)
           IN  IF m.thrown
                 THEN [Throw(d, FALSE, 0) EXCEPT !.markFailed = TRUE]
                 ELSE Return(m.db, FALSE, 0)
      ELSE IF fault = "body1" \/ ~Has(d, "boards")
        THEN Throw(d, TRUE, 1)
        ELSE LET d1 == [d EXCEPT !.boards = InsertById(@, SeedBoards)]
             IN  IF fault = "body2"
                   THEN Throw(d1, TRUE, 2)
                   ELSE MarkAndReturn(
                          [d1 EXCEPT !.schools = InsertById(@, SeedSchools)],
                          "seed_schools_and_boards", now, fault, 2)


\* a guarded step: `if (await hasMigrationRun(name)) return;` then the body,
\* then `await markMigrationComplete(name)`.  b is the body's outcome
\* [db, thrown, writes] on the store d.
Guarded(d, name, fault, now, b) ==
  LET r == IF hasMigrationRun(d, name, fault)
             THEN Skipped(d)
             ELSE IF b.thrown
               THEN Result(b.db, TRUE, TRUE, b.writes, b.errors)
               ELSE [MarkAndReturn(b.db, name, now, fault, b.writes)
                       EXCEPT !.errors = @ + b.errors]
  IN  [r EXCEPT !.checkErr = HasRunQueryFails(d, fault),
                !.errors = @ + (IF HasRunQueryFails(d, fault) THEN 1 ELSE 0)]

Body(d, t, w) ==
  [db |-> d, thrown |-> t, writes |-> w, errors |-> IF t THEN 1 ELSE 0]

\* ----------------------------------------------------- seedHardcodedAdminUser
AdminUser ==
  [id |-> HARDCODED_USER_ID, email |-> "admin@eduvium.nl", role |-> "admin"]

\* the INSERT fails: from outside, unknown enum label, or users.email UNIQUE
AdminInsertFails(d, fault) ==
  \/ fault = "body1"
  \/ "admin" \notin d.roleEnum
  \/ \E u \in d.users : u.email = AdminUser.email /\ u.id # AdminUser.id

\* variant of seedHardcodedAdminUser: a tracked step, which returns early
\* when its name is recorded and records it after the INSERT
seedHardcodedAdminUserTracked(d, fault) ==
  IF "seed_hardcoded_admin_user" \in TrackedNames(d)
    THEN Skipped(d)
    ELSE IF fault = "check" \/ ~Has(d, "users")
      THEN Throw(d, FALSE, 0)
      ELSE IF \E u \in d.users : u.id = HARDCODED_USER_ID
        THEN Return(d, FALSE, 0)
        ELSE IF AdminInsertFails(d, fault)
          THEN Throw(d, TRUE, 1)
          ELSE Return([d EXCEPT
                         !.users = InsertById(@, {AdminUser}),
                         !.tracking = @ \cup
                           { [name |-> "seed_hardcoded_admin_user",
                              executed_at |-> 0] }],
                      TRUE, 1)

seedHardcodedAdminUser(d, fault) ==
  IF fault = "check" \/ ~Has(d, "users")
    THEN Throw(d, FALSE, 0)
    ELSE IF \E u \in d.users : u.id = HARDCODED_USER_ID
      THEN Return(d, FALSE, 0)
      ELSE IF AdminInsertFails(d, fault)
        THEN Throw(d, TRUE, 1)
        ELSE Return([d EXCEPT !.users = InsertById(@, {AdminUser})], TRUE, 1)

\* ------------------------------------------------------- assignUsersToSchools
\* ORDER BY s.name over the school names of the model
SchoolNameOrder ==
  << "Alpha", "De Appelgaard", "De Hoeksteen", "De Horizon", "Ichtus",
     "Maranatha", "Olijfboom", "Rehoboth", "School a", "Test Omgeving" >>

NameRank(n) == CHOOSE i \in DOMAIN SchoolNameOrder : SchoolNameOrder[i] = n

HasLink(d, uid, sid) ==
  \E us \in d.userSchools : us.user_id = uid /\ us.school_id = sid

OrphanedUsers(d) ==
  { u \in d.users : ~\E us \in d.userSchools : us.user_id = u.id }

\* the schools the INSERT ... SELECT pairs with user uid
MissingSchools(d, uid) == { s \in d.schools : ~HasLink(d, uid, s.id) }

\* ROW_NUMBER() OVER (PARTITION BY u.id ORDER BY s.name) = 1
FirstByName(S) ==
  CHOOSE s \in S : \A t \in S : NameRank(s.name) <= NameRank(t.name)

AssignmentRows(d) ==
  UNION { { [user_id |-> u.id, school_id |-> s.id,
             is_default |-> (s = FirstByName(MissingSchools(d, u.id))),
             dup |-> 1] : s \in MissingSchools(d, u.id) } : u \in d.users }

assignUsersToSchools(d, fault) ==
  IF fault = "check" \/ ~Has(d, "users")
    THEN Throw(d, FALSE, 0)
    ELSE IF d.users = {}
      THEN Return(d, FALSE, 0)
      ELSE IF ~Has(d, "user_schools")
        THEN Throw(d, FALSE, 0)
        ELSE IF OrphanedUsers(d) = {}
          THEN Return(d, FALSE, 0)
          ELSE IF fault = "body1" \/ ~Has(d, "schools")
            THEN Throw(d, TRUE, 1)
            ELSE Return([d EXCEPT !.userSchools = @ \cup AssignmentRows(d)],
                        TRUE, 1)

\* ---------------------------------------------- ensureSupabaseBucketsForSchools
\* schoolId.replace(/-/g, ""), from character i of str on
RECURSIVE RemoveHyphensFrom(_, _)
RemoveHyphensFrom(str, i) ==
  IF i > Len(str)
    THEN ""
    ELSE (IF SubSeq(str, i, i) = "-" THEN "" ELSE SubSeq(str, i, i))
           \o RemoveHyphensFrom(str, i + 1)

RemoveHyphens(str) == RemoveHyphensFrom(str, 1)

\* `school-${schoolId.replace(/-/g, "")}`
BucketName(schoolId) == "school-" \o RemoveHyphens(schoolId)

\* the names of the loop's calls for the rows of SELECT id, name FROM
\* schools, in the order the loop takes them; the query has no ORDER BY,
\* the model takes the rows by name
BucketNamesOf(S) ==
  LET names == SelectSeq(SchoolNameOrder,
                         LAMBDA n : \E sch \in S : sch.name = n)
  IN  [ i \in DOMAIN names |->
          BucketName((CHOOSE sch \in S : sch.name = names[i]).id) ]

\* variant of BucketCalls: the first failing call ends the loop
BucketCallsAborting(d, fault) ==
  IF fault \in {"import", "check"} \/ ~Has(d, "schools")
    THEN << >>
    ELSE IF fault = "bucket" /\ d.schools # {}
      THEN SubSeq(BucketNamesOf(d.schools), 1, 1)
      ELSE BucketNamesOf(d.schools)

\* the bucket names createBucketIfNotExists is called with, in order: one
\* call per row, the catch around each call lets the loop go on
BucketCalls(d, fault) ==
  IF fault \in {"import", "check"} \/ ~Has(d, "schools")
    THEN << >>
    ELSE BucketNamesOf(d.schools)

\* the names whose createBucketIfNotExists call succeeds: with fault
\* "bucket" the first call fails and is caught
BucketsCreated(d, fault) ==
  Range(IF fault = "bucket"
          THEN SubSeq(BucketCalls(d, fault), 2, Len(BucketCalls(d, fault)))
          ELSE BucketCalls(d, fault))

\* variant of ensureSupabaseBucketsForSchools: the outer catch rethrows
ensureSupabaseBucketsForSchoolsRethrowing(d, fault) ==
  IF fault \in {"import", "check"} \/ ~Has(d, "schools")
    THEN Result(d, TRUE, FALSE, 0, 1)
    ELSE Result(d, FALSE, d.schools # {}, 0,
                IF fault = "bucket" /\ d.schools # {} THEN 1 ELSE 0)

\* the outer catch does not rethrow
ensureSupabaseBucketsForSchools(d, fault) ==
  IF fault \in {"import", "check"} \/ ~Has(d, "schools")
    THEN Result(d, FALSE, FALSE, 0, 1)
    ELSE Result(d, FALSE, d.schools # {}, 0,
                IF fault = "bucket" /\ d.schools # {} THEN 1 ELSE 0)

\* ----------------------------------------------- recalculateBudgetSpentAmounts
\* SUM(mh.cost) is a bigint; budget_categories.spent is an INTEGER, so a
\* sum outside the INTEGER range makes the UPDATE fail.  SumCost(rows, acc)
\* is <<acc + the costs of rows>>, or <<>> when that is out of range; it
\* adds costs of the opposite sign first, so the running sum leaves the
\* range only if the total does.
RECURSIVE SumCost(_, _)
SumCost(rows, acc) ==
  IF rows = {} THEN <<acc>>
  ELSE LET opp == { x \in rows : (acc >= 0) = (Val(x.cost) < 0) }
           r == IF opp # {} THEN CHOOSE x \in opp : TRUE
                ELSE CHOOSE x \in rows : TRUE
           c == Val(r.cost)
       IN  IF c > 0 /\ acc > IntMax - c THEN << >>
           ELSE IF c < 0 /\ acc < IntMin - c THEN << >>
           ELSE SumCost(rows \ {r}, acc + c)

\* variant of SpentOf: the category is compared without LOWER()
SpentOfCaseSensitive(d, bc) ==
  SumCost({ mh \in d.maintenanceHistory :
              /\ mh.category = bc.name
              /\ mh.school_id = bc.school_id
              /\ ~IsNull(mh.cost) }, 0)

\* COALESCE((SELECT SUM(mh.cost) ... ), 0), <<>> when out of range
SpentOf(d, bc) ==
  SumCost({ mh \in d.maintenanceHistory :
              /\ Lower(mh.category) = Lower(bc.name)
              /\ mh.school_id = bc.school_id
              /\ ~IsNull(mh.cost) }, 0)

RecalculateBody(d, fault) ==
  IF fault = "body1" \/ ~Has(d, "budget_categories")
    THEN Body(d, TRUE, 1)
    ELSE LET d1 == [d EXCEPT !.budgetCategories =
                      { [bc EXCEPT !.spent = 0] : bc \in @ }]
         IN  IF \/ fault = "body2"
                \/ ~Has(d, "maintenance_history")
                \/ \E bc \in d1.budgetCategories : IsNull(SpentOf(d1, bc))
               THEN Body(d1, TRUE, 2)
               ELSE Body([d1 EXCEPT !.budgetCategories =
                            { [bc EXCEPT !.spent = Val(SpentOf(d1, bc))] :
                                bc \in @ }],
                         FALSE, 2)

recalculateBudgetSpentAmounts(d, fault, now) ==
  Guarded(d, "recalculate_budget_spent_amounts", fault, now,
          RecalculateBody(d, fault))

\* ------------------------------------------------------- schema-shape steps
\* two DDL statements in a row: each needs relations to exist and then adds
\* relations and columns
Ddl2(d, fault, need1, d1, need2, d2) ==
  IF fault = "body1" \/ ~HasAll(d, need1)
    THEN Body(d, TRUE, 1)
    ELSE IF fault = "body2" \/ ~HasAll(d1, need2)
      THEN Body(d1, TRUE, 2)
      ELSE Body(d2, FALSE, 2)

createRoomsAndTerrainTables(d, fault, now) ==
  LET d1 == [d EXCEPT !.tables = @ \cup {"rooms"}]
      d2 == [d1 EXCEPT !.tables = @ \cup {"terrain"}]
  IN  Guarded(d, "create_rooms_and_terrain_tables", fault, now,
              Ddl2(d, fault, {"building_data", "schools"}, d1, {"schools"}, d2))

addMaxStudentsToRooms(d, fault, now) ==
  Guarded(d, "add_max_students_to_rooms", fault, now,
          IF fault = "body1" \/ ~Has(d, "rooms")
            THEN Body(d, TRUE, 1)
            ELSE Body([d EXCEPT !.cols = @ \cup {"rooms.max_students"}],
                      FALSE, 1))

createFoldersAndExtendDocuments(d, fault, now) ==
  LET d1 == [d EXCEPT !.tables = @ \cup {"folders"}]
      d2 == [d1 EXCEPT !.cols =
               @ \cup {"documents.folder_id", "documents.description"}]
  IN  Guarded(d, "create_folders_and_extend_documents", fault, now,
              Ddl2(d, fault, {"schools"}, d1, {"documents", "folders"}, d2))

createInvestmentYearsTable(d, fault, now) ==
  LET d1 == [d EXCEPT !.tables = @ \cup {"investment_years"}]
      d2 == [d1 EXCEPT !.cols =
               @ \ {"investments.budgeted_cost",
                    "investments.parent_investment_id"}]
  IN  Guarded(d, "create_investment_years_table", fault, now,
              Ddl2(d, fault, {"investments"}, d1, {"investments"}, d2))

addAttachmentColumnsToReportsAndMaintenance(d, fault, now) ==
  LET d1 == [d EXCEPT !.cols =
               @ \cup {"reports.attachment_url", "reports.attachment_name"}]
      d2 == [d1 EXCEPT !.cols =
               @ \cup {"maintenance.attachment_url",
                       "maintenance.attachment_name"}]
  IN  Guarded(d, "add_attachment_columns_to_reports_and_maintenance", fault,
              now, Ddl2(d, fault, {"reports"}, d1, {"maintenance"}, d2))

\* ------------------------------------------------ fixInvalidDrawingCategories
ValidDrawingCategories ==
  { "bouwkundig", "w-installatie", "e-installatie", "terrein", "overig",
    "veiligheid", "afwerking" }

\* category NOT IN (...): every literal is read as a drawing_category label
fixInvalidDrawingCategories(d, fault, now) ==
  Guarded(d, "fix_invalid_drawing_categories", fault, now,
          IF \/ fault = "body1"
             \/ ~Has(d, "drawings")
             \/ ~(ValidDrawingCategories \subseteq d.drawingEnum)
            THEN Body(d, TRUE, 1)
            ELSE Body([d EXCEPT !.drawings =
                         { IF r.category \in ValidDrawingCategories
                             THEN r ELSE [r EXCEPT !.category = "overig"] :
                           r \in @ }],
                      FALSE, 1))


\* ---------------------------------------------------- populateInvestmentYears
\* investments without investment_years rows and with a start date
InvestmentsToPopulate(d) ==
  { i \in d.investments :
      /\ ~\E iy \in d.investmentYears : iy.investment_id = i.id
      /\ ~IsNull(i.start_date) }

\* variant of YearsOf: the loop condition is year < maxYear
YearsOfExclusive(i) ==
  LET startYear == Val(i.start_date)
  IN  IF i.is_cyclic /\ ~IsNull(i.cycle_years) /\ Val(i.cycle_years) # 0
        THEN [ k \in 1 .. ((CycleHorizon - 1) \div Val(i.cycle_years)) + 1 |->
                 startYear + (k - 1) * Val(i.cycle_years) ]
        ELSE << startYear >>

\* the years of the inner loop: for (year = startYear; year <= maxYear;
\* year += cycleYears) when is_cyclic && cycle_years, else the start year;
\* of a loop that does not end, the two years a failing INSERT can be at
YearsOf(i) ==
  LET startYear == Val(i.start_date)
  IN  IF i.is_cyclic /\ ~IsNull(i.cycle_years) /\ Val(i.cycle_years) # 0
        THEN [ k \in 1 .. (IF Val(i.cycle_years) < 0 THEN 2
                           ELSE (CycleHorizon \div Val(i.cycle_years)) + 1) |->
                 startYear + (k - 1) * Val(i.cycle_years) ]
        ELSE << startYear >>

\* year += cycleYears with a negative cycle takes year away from maxYear:
\* the loop goes on, one awaited INSERT per year, and is left only when an
\* INSERT fails
LoopsForever(i) ==
  i.is_cyclic /\ ~IsNull(i.cycle_years) /\ Val(i.cycle_years) < 0

RowsOf(i) ==
  [ k \in DOMAIN YearsOf(i) |->
      [investment_id |-> i.id, year |-> YearsOf(i)[k], amount |-> 0] ]

\* the INSERT statements of the run, in row order of the SELECT (by id)
RECURSIVE InsertSeq(_)
InsertSeq(invs) ==
  IF invs = {} THEN << >>
  ELSE LET i == CHOOSE x \in invs : \A y \in invs : x.id <= y.id
       IN  RowsOf(i) \o InsertSeq(invs \ {i})

\* INSERT ... ON CONFLICT DO NOTHING against UNIQUE(investment_id, year)
InsertYear(rows, r) ==
  IF \E x \in rows : x.investment_id = r.investment_id /\ x.year = r.year
    THEN rows ELSE rows \cup {r}

RECURSIVE InsertYears(_, _, _)
InsertYears(rows, seq, n) ==
  IF n = 0 \/ seq = << >> THEN rows
  ELSE InsertYears(InsertYear(rows, Head(seq)), Tail(seq), n - 1)

PopulateBody(d, fault) ==
  IF fault = "body1" \/ ~HasAll(d, {"investments", "investment_years"})
    THEN Body(d, TRUE, 0)
    ELSE LET seq == InsertSeq(InvestmentsToPopulate(d))
             failAt == FaultIndex(fault) - 1
         IN  IF failAt >= 1 /\ failAt <= Len(seq)
               THEN Body([d EXCEPT !.investmentYears =
                            InsertYears(@, seq, failAt - 1)], TRUE, failAt)
               ELSE Body([d EXCEPT !.investmentYears =
                            InsertYears(@, seq, Len(seq))], FALSE, Len(seq))

populateInvestmentYears(d, fault, now) ==
  Guarded(d, "populate_investment_years", fault, now, PopulateBody(d, fault))

\* the labels step s, not skipped, sends an ALTER TYPE ... ADD VALUE for on
\* store d: addDrawingCategoryEnumValues only inside IF NOT EXISTS (pg_enum
\* row); extendRoleEnumForRbac for both labels when pg_enum has fewer than
\* two of them
AddValueIssued(s, d) ==
  IF s = "addDrawingCategoryEnumValues"
    THEN Range(enumValues) \ d.drawingEnum
    ELSE IF Cardinality(d.roleEnum \cap {"directeur", "medewerker"}) < 2
      THEN {"directeur", "medewerker"}
      ELSE {}

\* ------------------------------------------------------ extendRoleEnumForRbac
\* each ALTER TYPE role ADD VALUE IF NOT EXISTS has its own try/catch
ExtendRoleBody(d, fault) ==
  IF fault = "body1" \/ d.roleEnum = {}
    THEN Body(d, TRUE, 0)
    ELSE LET need == Cardinality(d.roleEnum \cap {"directeur", "medewerker"}) < 2
             add == IF need
                      THEN {"directeur", "medewerker"}
                             \ { IF fault = "alter1" THEN "directeur" ELSE "none",
                                 IF fault = "alter2" THEN "medewerker" ELSE "none" }
                      ELSE {}
             d1 == [d EXCEPT !.roleEnum = @ \cup add]
             w == IF need THEN 3 ELSE 1
             e == IF need /\ fault \in {"alter1", "alter2"} THEN 1 ELSE 0
         IN  IF \/ fault = "body2"
                \/ ~Has(d1, "users")
                \/ ~({"directeur", "user"} \subseteq d1.roleEnum)
               THEN [Body(d1, TRUE, w) EXCEPT !.errors = e + 1]
               ELSE [Body([d1 EXCEPT !.users =
                             { IF u.role = "user"
                                 THEN [u EXCEPT !.role = "directeur"] ELSE u :
                               u \in @ }],
                          FALSE, w) EXCEPT !.errors = e]

extendRoleEnumForRbac(d, fault, now) ==
  Guarded(d, "extend_role_enum_for_rbac", fault, now, ExtendRoleBody(d, fault))

\* ----------------------------------------------------------- fixJeanAdminRole
FixJeanBody(d, fault) ==
  IF fault = "body1" \/ ~Has(d, "users")
    THEN Body(d, TRUE, 0)
    ELSE IF fault = "body2" \/ "admin" \notin d.roleEnum
      THEN Body(d, TRUE, 1)
      ELSE Body([d EXCEPT !.users =
                   { IF Lower(u.email) = Lower("jean@deruiterpartners.nl")
                       THEN [u EXCEPT !.role = "admin"] ELSE u : u \in @ }],
                FALSE, 1)

fixJeanAdminRole(d, fault, now) ==
  Guarded(d, "fix_jean_admin_role_v2", fault, now, FixJeanBody(d, fault))


\* the step never returns: the SELECT succeeded and a selected investment
\* has a cycle that never passes maxYear
PopulateHangs(d, fault) ==
  /\ ~hasMigrationRun(d, "populate_investment_years", fault)
  /\ FaultIndex(fault) = 0
  /\ HasAll(d, {"investments", "investment_years"})
  /\ \E i \in InvestmentsToPopulate(d) : LoopsForever(i)

\* the store while the step is in that loop: the rows of the investments
\* before the first one (by id) whose loop does not end, and its start year
PopulateHangStore(d) ==
  LET todo == InvestmentsToPopulate(d)
      h == CHOOSE x \in todo :
             /\ LoopsForever(x)
             /\ \A y \in todo : LoopsForever(y) => x.id <= y.id
      seq == InsertSeq({ x \in todo : x.id < h.id })
               \o << [investment_id |-> h.id, year |-> Val(h.start_date),
                      amount |-> 0] >>
  IN  [d EXCEPT !.investmentYears = InsertYears(@, seq, Len(seq))]

\* ------------------------------------------------------------ initial stores
LegacyRoleLabels == {"admin", "user"}

LaterTables == {"session", "rooms", "terrain", "folders", "investment_years"}

LaterCols ==
  { "rooms.max_students", "documents.folder_id", "documents.description",
    "reports.attachment_url", "reports.attachment_name",
    "maintenance.attachment_url", "maintenance.attachment_name" }

EmptyDB ==
  [ tables |-> {}, cols |-> {}, objs |-> {}, roleEnum |-> {},
    drawingEnum |-> {}, tracking |-> {}, boards |-> {}, schools |-> {},
    users |-> {}, userSchools |-> {}, budgetCategories |-> {},
    maintenanceHistory |-> {}, investments |-> {}, investmentYears |-> {},
    drawings |-> {} ]

AlphaSchool == [id |-> "c0ffee00-a1fa", name |-> "Alpha", board_id |-> "NULL"]

InitUsers(roleLabels) ==
  { [id |-> "u-jean", email |-> "Jean@DeRuiterPartners.nl",
     role |-> IF "user" \in roleLabels THEN "user" ELSE "medewerker"],
    [id |-> "u-1", email |-> "u1@school.nl",
     role |-> IF "user" \in roleLabels THEN "user" ELSE "directeur"] }

\* a store before this runner ever ran (tracked = FALSE) or after an earlier
\* complete run (tracked = TRUE); base: the base schema exists; data: what
\* the relations hold ("usersOnly": users and no school; "rich": one school
\* of its own and rows in every relation the steps read; "seeded": the
\* default boards and schools, one user linked to one of them)
InitDB(base, roleLabels, tracked, data) ==
  LET roles == IF tracked /\ base
                 THEN roleLabels \cup {"directeur", "medewerker"}
                 ELSE roleLabels
      drawingLabels ==
        IF ~base THEN {}
        ELSE IF tracked THEN ValidDrawingCategories
        ELSE {"bouwkundig", "w-installatie", "e-installatie", "onlitigator"}
  IN  [ EmptyDB EXCEPT
          !.tables = (IF base THEN BaseTables ELSE {})
                       \cup (IF tracked THEN {MIGRATION_TRACKING_TABLE} ELSE {})
                       \cup (IF tracked /\ base THEN LaterTables ELSE {}),
          !.cols = IF ~base THEN {}
                   ELSE IF tracked THEN LaterCols
                   ELSE {"investments.budgeted_cost",
                         "investments.parent_investment_id"},
          !.objs = IF base /\ tracked
                     THEN {"IDX_session_expire", "session_pkey"} ELSE {},
          !.roleEnum = roles,
          !.drawingEnum = drawingLabels,
          !.tracking = IF tracked
                         THEN { [name |-> n, executed_at |-> 0] :
                                  n \in AllMigrationNames }
                         ELSE {},
          !.users = IF data = "empty" THEN {} ELSE InitUsers(roles),
          !.boards = IF data = "seeded" THEN SeedBoards ELSE {},
          !.schools = IF data = "rich" THEN {AlphaSchool}
                      ELSE IF data = "seeded" THEN SeedSchools ELSE {},
          !.userSchools =
            IF data = "rich"
              THEN { [user_id |-> "u-1", school_id |-> AlphaSchool.id,
                      is_default |-> TRUE, dup |-> 1] }
            ELSE IF data = "seeded"
              THEN { [user_id |-> "u-1", school_id |-> "7ffa2b7b-2d71",
                      is_default |-> TRUE, dup |-> 1] }
              ELSE {},
          !.budgetCategories =
            IF data = "rich"
              THEN { [id |-> 1, name |-> "HVAC", school_id |-> AlphaSchool.id,
                      budget |-> 100, spent |-> 7] }
              ELSE {},
          !.maintenanceHistory =
            IF data = "rich"
              THEN { [id |-> 1, category |-> "hvac",
                      school_id |-> AlphaSchool.id, cost |-> <<5>>],
                     [id |-> 2, category |-> "Hvac",
                      school_id |-> AlphaSchool.id, cost |-> <<3>>],
                     [id |-> 3, category |-> "hvac",
                      school_id |-> AlphaSchool.id, cost |-> << >>] }
              ELSE {},
          !.investments =
            IF data = "rich"
              THEN { [id |-> 1, start_date |-> <<2020>>, is_cyclic |-> TRUE,
                      cycle_years |-> <<15>>],
                     [id |-> 2, start_date |-> <<2021>>, is_cyclic |-> FALSE,
                      cycle_years |-> << >>],
                     [id |-> 3, start_date |-> << >>, is_cyclic |-> FALSE,
                      cycle_years |-> << >>] }
              ELSE {},
          !.drawings =
            IF data = "rich"
              THEN { [id |-> 1, category |-> "bouwkundig"],
                     [id |-> 2, category |->
                        IF tracked THEN "overig" ELSE "onlitigator"] }
              ELSE {} ]

InitDBs ==
  { InitDB(FALSE, r, t, "empty") :
      r \in {{}, LegacyRoleLabels, SchemaRoleLabels}, t \in BOOLEAN }
  \cup
  { InitDB(TRUE, r, t, data) :
      r \in {LegacyRoleLabels, SchemaRoleLabels}, t \in BOOLEAN,
      data \in {"empty", "usersOnly", "rich", "seeded"} }

\* ------------------------------------------------------------ runMigrations
NotAttempted ==
  [ state |-> "NOT_ATTEMPTED", skipped |-> FALSE, bodyRan |-> FALSE,
    writes |-> 0, errors |-> 0, checkErr |-> FALSE, markFailed |-> FALSE,
    preTracked |-> FALSE, changed |-> FALSE ]

\* the two server entry points
EntryPoints == {"index", "index-api"}

\* the server process: its entry point, how often it invoked runMigrations,
\* the statement of the startup function it is at, and whether
\* registerRoutes and app.listen have been called
NoProcess ==
  [ entry |-> "none", calls |-> 0, at |-> "none", routes |-> FALSE,
    listening |-> FALSE ]

\* the runner instances that are started at the same time
Instances == {1, 2}

\* a runner instance: the step it is at, the statement of that step, what
\* its last query returned, how its runMigrations ended and the steps of
\* it that threw
NoInstance ==
  [ at |-> "idle", stmt |-> 0, snap |-> << >>, out |-> "none", threw |-> {} ]

NoInstances == [ i \in Instances |-> NoInstance ]

Init ==
  /\ db \in InitDBs
  /\ buckets = {}
  /\ pc = "idle"
  /\ run = 0
  /\ outcome = "none"
  /\ faults = 0
  /\ started = << >>
  /\ log = [s \in Steps |-> NotAttempted]
  /\ ensured = FALSE
  /\ prev = [db |-> EmptyDB, clean |-> FALSE, faults |-> 0]
  /\ proc = NoProcess
  /\ inst = NoInstances

\* no statement failed in the run recorded by l
RunClean(l) ==
  \A s \in Steps : l[s].state = "COMPLETED" /\ l[s].errors = 0

\* the statements of each step that the store can be made to fail
FaultsOf(s) ==
  CASE s = "ensureMigrationTable" -> {"ensure"}
    [] s = "createBaseSchema" -> {"check", "nofile", "body1", "mark"}
    [] s = "ensureSessionTable" -> {"s1", "s2", "s2ae", "s3"}
    [] s = "addDrawingCategoryEnumValues" -> {"hasRun", "body1", "body3", "mark"}
    [] s = "seedSchoolsAndBoards" -> {"check", "body1", "body2", "mark"}
    [] s \in {"seedHardcodedAdminUser", "assignUsersToSchools"} ->
         {"check", "body1"}
    [] s = "ensureSupabaseBucketsForSchools" -> {"import", "check", "bucket"}
    [] s \in {"addMaxStudentsToRooms", "fixInvalidDrawingCategories"} ->
         {"hasRun", "body1", "mark"}
    [] s = "populateInvestmentYears" ->
         {"hasRun", "body1", "body2", "body3", "mark"}
    [] s = "extendRoleEnumForRbac" ->
         {"hasRun", "body1", "alter1", "alter2", "body2", "mark"}
    [] OTHER -> {"hasRun", "body1", "body2", "mark"}

\* runMigrations is entered: nothing of an earlier invocation is kept but
\* the store
BeginRun ==
  /\ pc \in {"idle", "done"}
  /\ run < MaxRuns
  /\ run' = run + 1
  /\ pc' = "ensureMigrationTable"
  /\ outcome' = "running"
  /\ started' = << >>
  /\ log' = [s \in Steps |-> NotAttempted]
  /\ ensured' = FALSE
  /\ prev' = [db |-> db, clean |-> outcome = "resolved" /\ RunClean(log),
              faults |-> faults]
  /\ UNCHANGED <<db, buckets, faults>>

\* an invocation of runMigrations, whoever the caller is
StartRun ==
  /\ BeginRun
  /\ UNCHANGED <<proc, inst>>

\* a new server process at either entry point: the first statement of its
\* startup function invokes runMigrations
StartProcess ==
  /\ BeginRun
  /\ \E e \in EntryPoints :
       proc' = [NoProcess EXCEPT !.entry = e, !.calls = 1,
                                 !.at = "runMigrations"]
  /\ UNCHANGED inst

\* the outer catch of runMigrations rethrows
EnsureMigrationTable ==
  /\ pc = "ensureMigrationTable"
  /\ \E fault \in {"none"} \cup FaultsOf("ensureMigrationTable") :
       /\ fault = "none" \/ faults < MaxFaults
       /\ faults' = faults + (IF fault = "none" THEN 0 ELSE 1)
       /\ LET r == ensureMigrationTable(db, fault)
          IN  /\ db' = r.db
              /\ ensured' = ~r.thrown
              /\ pc' = IF r.thrown THEN "done" ELSE StepOrder[1]
              /\ outcome' = IF r.thrown THEN "rejected" ELSE "running"
  /\ UNCHANGED <<buckets, run, started, log, prev, proc, inst>>

\* variant of NextPc: seedSchoolsAndBoards awaited before
\* addDrawingCategoryEnumValues
NextPcReordered(s) ==
  CASE s = "ensureSessionTable" -> "seedSchoolsAndBoards"
    [] s = "seedSchoolsAndBoards" -> "addDrawingCategoryEnumValues"
    [] s = "addDrawingCategoryEnumValues" -> "seedHardcodedAdminUser"
    [] StepIndex(s) = Len(StepOrder) -> "done"
    [] OTHER -> StepOrder[StepIndex(s) + 1]

\* the statement awaited after step s returned
NextPc(s) ==
  IF StepIndex(s) = Len(StepOrder) THEN "done" ELSE StepOrder[StepIndex(s) + 1]

\* variants of OutcomeOnThrow: every rejection is logged and dropped; every
\* rejection is rethrown
OutcomeOnThrowSwallowed(s) == "resolved"

OutcomeOnThrowRethrown(s) == "rejected"

\* where a rejection of step s is caught: the inner try/catch around the
\* non-critical block logs it, the outer one rethrows
OutcomeOnThrow(s) == IF IsCritical(s) THEN "rejected" ELSE "resolved"

\* variant of PcOnThrow: a try/catch of its own around each non-critical
\* await
PcOnThrowIsolated(s) == IF IsCritical(s) THEN "done" ELSE NextPc(s)

\* where control goes when step s rejects: both catch blocks sit after the
\* last await, so no later step is awaited
PcOnThrow(s) == "done"

\* step s runs to its end with result r; the log keeps what the step did:
\* preTracked, its name was recorded when it started; changed, the store
\* after it differs from the store before it
Await(s, r) ==
  /\ db' = r.db
  /\ started' = Append(started, s)
  /\ log' = [log EXCEPT ![s] =
       [ state |-> IF r.thrown THEN "FAILED" ELSE "COMPLETED",
         skipped |-> r.skipped, bodyRan |-> r.bodyRan, writes |-> r.writes,
         errors |-> r.errors, checkErr |-> r.checkErr,
         markFailed |-> r.markFailed,
         preTracked |-> s \in TrackedSteps
                          /\ MigrationName[s] \in TrackedNames(db),
         changed |-> r.db # db ]]
  /\ pc' = IF r.thrown THEN PcOnThrow(s) ELSE NextPc(s)
  /\ outcome' = IF r.thrown THEN OutcomeOnThrow(s)
                ELSE IF NextPc(s) = "done" THEN "resolved" ELSE "running"
  /\ UNCHANGED <<run, ensured, prev, proc, inst>>

\* the statement the store fails in this execution of step s, if any
Choices(s) == {"none"} \cup FaultsOf(s)

Inject(fault) ==
  /\ fault = "none" \/ faults < MaxFaults
  /\ faults' = faults + (IF fault = "none" THEN 0 ELSE 1)

CreateBaseSchema ==
  /\ pc = "createBaseSchema"
  /\ \E fault \in Choices("createBaseSchema") :
       /\ Inject(fault)
       /\ Await("createBaseSchema", createBaseSchema(db, fault, run))
  /\ UNCHANGED buckets

EnsureSessionTable ==
  /\ pc = "ensureSessionTable"
  /\ \E fault \in Choices("ensureSessionTable") :
       /\ Inject(fault)
       /\ Await("ensureSessionTable", ensureSessionTable(db, fault))
  /\ UNCHANGED buckets

AddDrawingCategoryEnumValues ==
  /\ pc = "addDrawingCategoryEnumValues"
  /\ \E fault \in Choices("addDrawingCategoryEnumValues") :
       /\ Inject(fault)
       /\ Await("addDrawingCategoryEnumValues", addDrawingCategoryEnumValues(db, fault, run))
  /\ UNCHANGED buckets

SeedSchoolsAndBoards ==
  /\ pc = "seedSchoolsAndBoards"
  /\ \E fault \in Choices("seedSchoolsAndBoards") :
       /\ Inject(fault)
       /\ Await("seedSchoolsAndBoards", seedSchoolsAndBoards(db, fault, run))
  /\ UNCHANGED buckets

SeedHardcodedAdminUser ==
  /\ pc = "seedHardcodedAdminUser"
  /\ \E fault \in Choices("seedHardcodedAdminUser") :
       /\ Inject(fault)
       /\ Await("seedHardcodedAdminUser", seedHardcodedAdminUser(db, fault))
  /\ UNCHANGED buckets

AssignUsersToSchools ==
  /\ pc = "assignUsersToSchools"
  /\ \E fault \in Choices("assignUsersToSchools") :
       /\ Inject(fault)
       /\ Await("assignUsersToSchools", assignUsersToSchools(db, fault))
  /\ UNCHANGED buckets

EnsureSupabaseBucketsForSchools ==
  /\ pc = "ensureSupabaseBucketsForSchools"
  /\ \E fault \in Choices("ensureSupabaseBucketsForSchools") :
       /\ Inject(fault)
       /\ buckets' = buckets \cup BucketsCreated(db, fault)
       /\ Await("ensureSupabaseBucketsForSchools", ensureSupabaseBucketsForSchools(db, fault))

RecalculateBudgetSpentAmounts ==
  /\ pc = "recalculateBudgetSpentAmounts"
  /\ \E fault \in Choices("recalculateBudgetSpentAmounts") :
       /\ Inject(fault)
       /\ Await("recalculateBudgetSpentAmounts", recalculateBudgetSpentAmounts(db, fault, run))
  /\ UNCHANGED buckets

CreateRoomsAndTerrainTables ==
  /\ pc = "createRoomsAndTerrainTables"
  /\ \E fault \in Choices("createRoomsAndTerrainTables") :
       /\ Inject(fault)
       /\ Await("createRoomsAndTerrainTables", createRoomsAndTerrainTables(db, fault, run))
  /\ UNCHANGED buckets

AddMaxStudentsToRooms ==
  /\ pc = "addMaxStudentsToRooms"
  /\ \E fault \in Choices("addMaxStudentsToRooms") :
       /\ Inject(fault)
       /\ Await("addMaxStudentsToRooms", addMaxStudentsToRooms(db, fault, run))
  /\ UNCHANGED buckets

CreateFoldersAndExtendDocuments ==
  /\ pc = "createFoldersAndExtendDocuments"
  /\ \E fault \in Choices("createFoldersAndExtendDocuments") :
       /\ Inject(fault)
       /\ Await("createFoldersAndExtendDocuments", createFoldersAndExtendDocuments(db, fault, run))
  /\ UNCHANGED buckets

CreateInvestmentYearsTable ==
  /\ pc = "createInvestmentYearsTable"
  /\ \E fault \in Choices("createInvestmentYearsTable") :
       /\ Inject(fault)
       /\ Await("createInvestmentYearsTable", createInvestmentYearsTable(db, fault, run))
  /\ UNCHANGED buckets

FixInvalidDrawingCategories ==
  /\ pc = "fixInvalidDrawingCategories"
  /\ \E fault \in Choices("fixInvalidDrawingCategories") :
       /\ Inject(fault)
       /\ Await("fixInvalidDrawingCategories", fixInvalidDrawingCategories(db, fault, run))
  /\ UNCHANGED buckets

PopulateInvestmentYears ==
  /\ pc = "populateInvestmentYears"
  /\ \E fault \in Choices("populateInvestmentYears") :
       /\ Inject(fault)
       /\ IF PopulateHangs(db, fault)
            THEN /\ pc' = "hung"
                 /\ db' = PopulateHangStore(db)
                 /\ started' = Append(started, "populateInvestmentYears")
                 /\ UNCHANGED <<run, outcome, log, ensured, prev, proc, inst>>
            ELSE Await("populateInvestmentYears", populateInvestmentYears(db, fault, run))
  /\ UNCHANGED buckets

AddAttachmentColumnsToReportsAndMaintenance ==
  /\ pc = "addAttachmentColumnsToReportsAndMaintenance"
  /\ \E fault \in Choices("addAttachmentColumnsToReportsAndMaintenance") :
       /\ Inject(fault)
       /\ Await("addAttachmentColumnsToReportsAndMaintenance", addAttachmentColumnsToReportsAndMaintenance(db, fault, run))
  /\ UNCHANGED buckets

ExtendRoleEnumForRbac ==
  /\ pc = "extendRoleEnumForRbac"
  /\ \E fault \in Choices("extendRoleEnumForRbac") :
       /\ Inject(fault)
       /\ Await("extendRoleEnumForRbac", extendRoleEnumForRbac(db, fault, run))
  /\ UNCHANGED buckets

FixJeanAdminRole ==
  /\ pc = "fixJeanAdminRole"
  /\ \E fault \in Choices("fixJeanAdminRole") :
       /\ Inject(fault)
       /\ Await("fixJeanAdminRole", fixJeanAdminRole(db, fault, run))
  /\ UNCHANGED buckets

\* variants of StartupGate: runMigrations() called without await; the
\* rejection caught and dropped by the startup function
StartupGateNoAwait(o) == o \in {"running", "resolved"}

StartupGateCatchAll(o) == o \in {"resolved", "rejected"}

\* `await runMigrations()` in the startup function: the statements after it
\* run only when the promise resolved; there is no catch around it
StartupGate(o) == o = "resolved"

\* the statement after registerRoutes: index.ts sets up Vite or static file
\* serving before it listens, index-api.ts listens at once
AfterRoutes(entry) == IF entry = "index" THEN "frontend" ELSE "listen"

\* await registerRoutes(app): it may reject, which ends the startup function
RegisterRoutes ==
  /\ proc.at = "runMigrations"
  /\ StartupGate(outcome)
  /\ \E ok \in BOOLEAN :
       proc' = [proc EXCEPT !.routes = TRUE,
                            !.at = IF ok THEN AfterRoutes(proc.entry)
                                   ELSE "exited"]
  /\ UNCHANGED <<db, buckets, pc, run, outcome, faults, started, log,
                 ensured, prev, inst>>

\* index.ts: await setupVite(app) in development, serveStatic(app) otherwise
SetupFrontend ==
  /\ proc.at = "frontend"
  /\ \E ok \in BOOLEAN :
       proc' = [proc EXCEPT !.at = IF ok THEN "listen" ELSE "exited"]
  /\ UNCHANGED <<db, buckets, pc, run, outcome, faults, started, log,
                 ensured, prev, inst>>

\* app.listen(port, "0.0.0.0", ...)
Listen ==
  /\ proc.at = "listen"
  /\ proc' = [proc EXCEPT !.at = "listening", !.listening = TRUE]
  /\ UNCHANGED <<db, buckets, pc, run, outcome, faults, started, log,
                 ensured, prev, inst>>

Next ==
  \/ StartRun
  \/ EnsureMigrationTable
  \/ CreateBaseSchema
  \/ EnsureSessionTable
  \/ AddDrawingCategoryEnumValues
  \/ SeedSchoolsAndBoards
  \/ SeedHardcodedAdminUser
  \/ AssignUsersToSchools
  \/ EnsureSupabaseBucketsForSchools
  \/ RecalculateBudgetSpentAmounts
  \/ CreateRoomsAndTerrainTables
  \/ AddMaxStudentsToRooms
  \/ CreateFoldersAndExtendDocuments
  \/ CreateInvestmentYearsTable
  \/ FixInvalidDrawingCategories
  \/ PopulateInvestmentYears
  \/ AddAttachmentColumnsToReportsAndMaintenance
  \/ ExtendRoleEnumForRbac
  \/ FixJeanAdminRole

Spec == Init /\ [][Next]_vars

\* repeated startups on a store that has the base schema and no tracking
\* table yet, with either set of role labels, without users or with two
RestartDBs ==
  { InitDB(TRUE, r, FALSE, data) :
      r \in {LegacyRoleLabels, SchemaRoleLabels},
      data \in {"empty", "usersOnly"} }

RestartInit ==
  /\ db \in RestartDBs
  /\ buckets = {}
  /\ pc = "idle"
  /\ run = 0
  /\ outcome = "none"
  /\ faults = 0
  /\ started = << >>
  /\ log = [s \in Steps |-> NotAttempted]
  /\ ensured = FALSE
  /\ prev = [db |-> EmptyDB, clean |-> FALSE, faults |-> 0]
  /\ proc = NoProcess
  /\ inst = NoInstances

\* a startup after the ones that are counted: the server is started again
\* as often as it stops, on the store the startup before left
Restart ==
  /\ pc = "done"
  /\ run = MaxRuns
  /\ pc' = "ensureMigrationTable"
  /\ outcome' = "running"
  /\ started' = << >>
  /\ log' = [s \in Steps |-> NotAttempted]
  /\ ensured' = FALSE
  /\ prev' = [db |-> db, clean |-> outcome = "resolved" /\ RunClean(log),
              faults |-> faults]
  /\ UNCHANGED <<db, buckets, run, faults, proc, inst>>

RestartNext == Next \/ Restart

\* a runner that has been started takes its next step (each await of
\* runMigrations settles), and a server that has stopped is started again
RestartSpec ==
  /\ RestartInit /\ [][RestartNext]_vars
  /\ WF_vars(Restart)
  /\ WF_vars(StartRun)
  /\ WF_vars(EnsureMigrationTable)
  /\ WF_vars(CreateBaseSchema)
  /\ WF_vars(EnsureSessionTable)
  /\ WF_vars(AddDrawingCategoryEnumValues)
  /\ WF_vars(SeedSchoolsAndBoards)
  /\ WF_vars(SeedHardcodedAdminUser)
  /\ WF_vars(AssignUsersToSchools)
  /\ WF_vars(EnsureSupabaseBucketsForSchools)
  /\ WF_vars(RecalculateBudgetSpentAmounts)
  /\ WF_vars(CreateRoomsAndTerrainTables)
  /\ WF_vars(AddMaxStudentsToRooms)
  /\ WF_vars(CreateFoldersAndExtendDocuments)
  /\ WF_vars(CreateInvestmentYearsTable)
  /\ WF_vars(FixInvalidDrawingCategories)
  /\ WF_vars(PopulateInvestmentYears)
  /\ WF_vars(AddAttachmentColumnsToReportsAndMaintenance)
  /\ WF_vars(ExtendRoleEnumForRbac)
  /\ WF_vars(FixJeanAdminRole)

\* the server processes: every invocation of runMigrations is the one of a
\* startup function, over the stores of a deployment before its first
\* startup and after a complete one
StartupDBs ==
  { InitDB(FALSE, LegacyRoleLabels, FALSE, "empty"),
    InitDB(FALSE, SchemaRoleLabels, FALSE, "empty"),
    InitDB(TRUE, LegacyRoleLabels, FALSE, "usersOnly"),
    InitDB(TRUE, LegacyRoleLabels, FALSE, "rich"),
    InitDB(TRUE, SchemaRoleLabels, TRUE, "rich"),
    InitDB(TRUE, SchemaRoleLabels, TRUE, "seeded") }

StartupInit ==
  /\ Init
  /\ db \in StartupDBs

StartupNext ==
  \/ StartProcess
  \/ EnsureMigrationTable
  \/ CreateBaseSchema
  \/ EnsureSessionTable
  \/ AddDrawingCategoryEnumValues
  \/ SeedSchoolsAndBoards
  \/ SeedHardcodedAdminUser
  \/ AssignUsersToSchools
  \/ EnsureSupabaseBucketsForSchools
  \/ RecalculateBudgetSpentAmounts
  \/ CreateRoomsAndTerrainTables
  \/ AddMaxStudentsToRooms
  \/ CreateFoldersAndExtendDocuments
  \/ CreateInvestmentYearsTable
  \/ FixInvalidDrawingCategories
  \/ PopulateInvestmentYears
  \/ AddAttachmentColumnsToReportsAndMaintenance
  \/ ExtendRoleEnumForRbac
  \/ FixJeanAdminRole
  \/ RegisterRoutes
  \/ SetupFrontend
  \/ Listen

StartupSpec == StartupInit /\ [][StartupNext]_vars

\* ------------------------------------------------------- one step on a store
\* A step called on a store drawn from a family of stores; the steps
\* awaited after it in runMigrations follow as far as StepNext has them.
\* prev.db keeps the store the first call started on.

\* a store after a complete run, holding no row but the tracking rows
Migrated == InitDB(TRUE, SchemaRoleLabels, TRUE, "empty")

UnitSchools ==
  { s \in SeedSchools : s.name \in {"De Appelgaard", "Ichtus", "Rehoboth"} }

\* user_schools rows for a choice f of no link, a link or a default link
\* per user and school
LinksOf(f) ==
  { [user_id |-> p[1], school_id |-> p[2], is_default |-> f[p] = "default",
     dup |-> 1] : p \in { q \in DOMAIN f : f[q] # "none" } }

\* two users, one to three schools, every set of links between them
AssignInputs ==
  UNION {
    { [Migrated EXCEPT !.users = InitUsers(SchemaRoleLabels),
                       !.boards = SeedBoards,
                       !.schools = S,
                       !.userSchools = LinksOf(f)] :
        f \in [ {"u-jean", "u-1"} \X { x.id : x \in S } ->
                 {"none", "link", "default"} ] } :
    S \in SUBSET UnitSchools \ {{}} }

\* the tracking rows of Migrated without those of the names in ns
TrackingWithout(ns) == { t \in Migrated.tracking : t.name \notin ns }

\* no school, a school that is none of the default ones, some or all of the
\* default ones; no board, one or both default boards; the step's name
\* recorded or not
SeedInputs ==
  { d \in { [Migrated EXCEPT !.boards = B, !.schools = S, !.tracking = T] :
              B \in SUBSET SeedBoards,
              S \in {{}, {AlphaSchool}, UnitSchools, SeedSchools,
                     UnitSchools \cup {AlphaSchool}},
              T \in {Migrated.tracking, {},
                     TrackingWithout({"seed_schools_and_boards"})} } :
      \A x \in d.schools :
        x.board_id = "NULL" \/ x.board_id \in { b.id : b \in d.boards } }

\* budget categories of two schools, two of them with the same name in
\* another case; maintenance rows whose category differs in case, whose cost
\* is NULL, negative or the largest INTEGER; the step's name recorded or not
RecalcInputs ==
  LET a == "1d09ec9f-8177"
      b == "7ffa2b7b-2d71"
      bcs == { [id |-> 1, name |-> "HVAC", school_id |-> a, budget |-> 100,
                spent |-> 7],
               [id |-> 2, name |-> "hvac", school_id |-> a, budget |-> 50,
                spent |-> 0],
               [id |-> 3, name |-> "HVAC", school_id |-> b, budget |-> 100,
                spent |-> 1],
               [id |-> 4, name |-> "Dak", school_id |-> a, budget |-> 20,
                spent |-> 9] }
      mhs == { [id |-> 1, category |-> "hvac", school_id |-> a, cost |-> <<5>>],
               [id |-> 2, category |-> "Hvac", school_id |-> a, cost |-> <<3>>],
               [id |-> 3, category |-> "hvac", school_id |-> a, cost |-> << >>],
               [id |-> 4, category |-> "HVAC", school_id |-> b, cost |-> <<4>>],
               [id |-> 5, category |-> "dak", school_id |-> b, cost |-> <<6>>],
               [id |-> 6, category |-> "HVAC", school_id |-> a,
                cost |-> <<IntMax>>],
               [id |-> 7, category |-> "hvac", school_id |-> a, cost |-> <<-2>>] }
  IN  { [Migrated EXCEPT !.boards = SeedBoards, !.schools = UnitSchools,
                         !.budgetCategories = B, !.maintenanceHistory = M,
                         !.tracking = T] :
          B \in SUBSET bcs, M \in SUBSET mhs,
          T \in {Migrated.tracking,
                 TrackingWithout({"recalculate_budget_spent_amounts"})} }

\* investment 1 with or without a start date, cyclic or not, with no cycle
\* length or one of -5, 0, 7, 15, 30, 31 years; investment 2, cyclic every 10
\* years, with or without a year row of its own; investment 3 not cyclic
\* though it has a cycle length; the step's name recorded or not
PopulateInputs ==
  { [Migrated EXCEPT
       !.investments =
          { [id |-> 1, start_date |-> sd, is_cyclic |-> cyc, cycle_years |-> c],
            [id |-> 2, start_date |-> <<2021>>, is_cyclic |-> TRUE,
             cycle_years |-> <<10>>] }
          \cup (IF third
                  THEN { [id |-> 3, start_date |-> <<2019>>,
                          is_cyclic |-> FALSE, cycle_years |-> <<5>>] }
                  ELSE {}),
       !.investmentYears =
          IF has2 THEN { [investment_id |-> 2, year |-> 2031, amount |-> 500] }
          ELSE {},
       !.tracking = T] :
      sd \in {<< >>, <<2020>>}, cyc \in BOOLEAN,
      c \in {<< >>, <<-5>>, <<0>>, <<7>>, <<15>>, <<30>>, <<31>>},
      third \in BOOLEAN, has2 \in BOOLEAN,
      T \in {Migrated.tracking,
             TrackingWithout({"populate_investment_years"})} }

\* the steps that keep no record of themselves
SelfIdempotentSteps ==
  {"ensureSessionTable", "seedHardcodedAdminUser", "assignUsersToSchools",
   "ensureSupabaseBucketsForSchools"}

\* with or without the session relation and its primary key; no user, two
\* users, these and the admin user, or a user holding the admin's email;
\* no school or three; no tracking row or those of a complete run
SelfIdempotentInputs ==
  { [Migrated EXCEPT
       !.tables = IF session THEN @ ELSE @ \ {"session"},
       !.objs = IF session THEN @ ELSE {"IDX_session_expire"},
       !.users = U, !.boards = SeedBoards, !.schools = S, !.tracking = T] :
      session \in BOOLEAN,
      U \in { {}, InitUsers(SchemaRoleLabels),
              InitUsers(SchemaRoleLabels) \cup {AdminUser},
              { [id |-> "u-x", email |-> AdminUser.email, role |-> "admin"] } },
      S \in {{}, UnitSchools},
      T \in {{}, Migrated.tracking} }

StepInputs(s) ==
  CASE s = "assignUsersToSchools" -> AssignInputs \cup SelfIdempotentInputs
    [] s \in SelfIdempotentSteps -> SelfIdempotentInputs
    [] s = "populateInvestmentYears" -> PopulateInputs
    [] s = "recalculateBudgetSpentAmounts" -> RecalcInputs
    [] s = "seedSchoolsAndBoards" -> SeedInputs
    [] OTHER -> {}

UnitSteps ==
  SelfIdempotentSteps
    \cup {"seedSchoolsAndBoards", "recalculateBudgetSpentAmounts",
          "populateInvestmentYears"}

StepInit ==
  /\ pc \in UnitSteps
  /\ db \in StepInputs(pc)
  /\ buckets = {}
  /\ run = 1
  /\ outcome = "running"
  /\ faults = 0
  /\ started = << >>
  /\ log = [s \in Steps |-> NotAttempted]
  /\ ensured = TRUE
  /\ prev = [db |-> db, clean |-> FALSE, faults |-> 0]
  /\ proc = NoProcess
  /\ inst = NoInstances

StepNext ==
  \/ EnsureSessionTable
  \/ SeedSchoolsAndBoards
  \/ SeedHardcodedAdminUser
  \/ AssignUsersToSchools
  \/ EnsureSupabaseBucketsForSchools
  \/ RecalculateBudgetSpentAmounts
  \/ PopulateInvestmentYears

StepSpec == StepInit /\ [][StepNext]_vars

\* ------------------------------------------------- two instances, one store
\* Each instance awaits the steps of runMigrations in order.  The steps
\* that seed rows (seedSchoolsAndBoards, seedHardcodedAdminUser,
\* assignUsersToSchools) are taken statement by statement, each statement
\* in its own transaction; the other steps are taken as one step each.  No
\* statement is failed from outside.

\* step s from its first to its last statement on store d
RunStep(s, d, now) ==
  CASE s = "createBaseSchema" -> createBaseSchema(d, "none", now)
    [] s = "ensureSessionTable" -> ensureSessionTable(d, "none")
    [] s = "addDrawingCategoryEnumValues" ->
         addDrawingCategoryEnumValues(d, "none", now)
    [] s = "seedSchoolsAndBoards" -> seedSchoolsAndBoards(d, "none", now)
    [] s = "seedHardcodedAdminUser" -> seedHardcodedAdminUser(d, "none")
    [] s = "assignUsersToSchools" -> assignUsersToSchools(d, "none")
    [] s = "ensureSupabaseBucketsForSchools" ->
         ensureSupabaseBucketsForSchools(d, "none")
    [] s = "recalculateBudgetSpentAmounts" ->
         recalculateBudgetSpentAmounts(d, "none", now)
    [] s = "createRoomsAndTerrainTables" ->
         createRoomsAndTerrainTables(d, "none", now)
    [] s = "addMaxStudentsToRooms" -> addMaxStudentsToRooms(d, "none", now)
    [] s = "createFoldersAndExtendDocuments" ->
         createFoldersAndExtendDocuments(d, "none", now)
    [] s = "createInvestmentYearsTable" ->
         createInvestmentYearsTable(d, "none", now)
    [] s = "fixInvalidDrawingCategories" ->
         fixInvalidDrawingCategories(d, "none", now)
    [] s = "populateInvestmentYears" ->
         populateInvestmentYears(d, "none", now)
    [] s = "addAttachmentColumnsToReportsAndMaintenance" ->
         addAttachmentColumnsToReportsAndMaintenance(d, "none", now)
    [] s = "extendRoleEnumForRbac" -> extendRoleEnumForRbac(d, "none", now)
    [] s = "fixJeanAdminRole" -> fixJeanAdminRole(d, "none", now)

SplitSteps ==
  {"seedSchoolsAndBoards", "seedHardcodedAdminUser", "assignUsersToSchools"}

\* instance i is about to send statement n of step s
AtStmt(i, s, n) == inst[i].at = s /\ inst[i].stmt = n

\* step s of instance i has ended, by returning or by throwing
Goes(i, s, thrown) ==
  inst' = [inst EXCEPT ![i] =
    [ at |-> IF thrown THEN PcOnThrow(s) ELSE NextPc(s),
      stmt |-> 0,
      snap |-> << >>,
      out |-> IF thrown THEN OutcomeOnThrow(s)
              ELSE IF NextPc(s) = "done" THEN "resolved" ELSE "running",
      threw |-> IF thrown THEN inst[i].threw \cup {s} ELSE inst[i].threw ]]

\* a query of instance i returned v; statement n comes next
Reads(i, n, v) == inst' = [inst EXCEPT ![i].stmt = n, ![i].snap = v]

\* user_schools has no unique constraint over (user_id, school_id): every
\* row of new is inserted, as one more row of its pair
InsertLinks(rows, new) ==
  rows \cup
    { [r EXCEPT !.dup = 1 + Cardinality({ x \in rows :
                                           /\ x.user_id = r.user_id
                                           /\ x.school_id = r.school_id })] :
        r \in new }

ConcFrame ==
  UNCHANGED <<pc, run, outcome, faults, started, log, ensured, prev, proc>>

ConcStart(i) ==
  /\ inst[i].at = "idle"
  /\ inst' = [inst EXCEPT ![i].at = "ensureMigrationTable",
                          ![i].out = "running"]
  /\ UNCHANGED <<db, buckets>>
  /\ ConcFrame

ConcEnsureMigrationTable(i) ==
  /\ inst[i].at = "ensureMigrationTable"
  /\ db' = ensureMigrationTable(db, "none").db
  /\ inst' = [inst EXCEPT ![i].at = StepOrder[1]]
  /\ UNCHANGED buckets
  /\ ConcFrame

ConcStep(i) ==
  /\ inst[i].at \in Steps \ SplitSteps
  /\ LET s == inst[i].at
         r == RunStep(s, db, i)
     IN  /\ db' = r.db
         /\ buckets' = IF s = "ensureSupabaseBucketsForSchools"
                         THEN buckets \cup BucketsCreated(db, "none")
                         ELSE buckets
         /\ Goes(i, s, r.thrown)
  /\ ConcFrame

\* SELECT COUNT(*) as count FROM schools
SeedCountSchools(i) ==
  /\ AtStmt(i, "seedSchoolsAndBoards", 0)
  /\ IF Has(db, "schools")
       THEN Reads(i, 1, db.schools # {})
       ELSE Goes(i, "seedSchoolsAndBoards", TRUE)
  /\ UNCHANGED <<db, buckets>>
  /\ ConcFrame

\* INSERT INTO boards ... ON CONFLICT (id) DO NOTHING
SeedInsertBoards(i) ==
  /\ AtStmt(i, "seedSchoolsAndBoards", 1)
  /\ inst[i].snap = FALSE
  /\ IF Has(db, "boards")
       THEN /\ db' = [db EXCEPT !.boards = InsertById(@, SeedBoards)]
            /\ Reads(i, 2, FALSE)
       ELSE /\ db' = db
            /\ Goes(i, "seedSchoolsAndBoards", TRUE)
  /\ UNCHANGED buckets
  /\ ConcFrame

\* INSERT INTO schools ... ON CONFLICT (id) DO NOTHING
SeedInsertSchools(i) ==
  /\ AtStmt(i, "seedSchoolsAndBoards", 2)
  /\ db' = [db EXCEPT !.schools = InsertById(@, SeedSchools)]
  /\ Reads(i, 3, FALSE)
  /\ UNCHANGED buckets
  /\ ConcFrame

\* await markMigrationComplete(migrationName), after the INSERTs or when
\* schools were found
SeedMark(i) ==
  /\ \/ AtStmt(i, "seedSchoolsAndBoards", 3)
     \/ AtStmt(i, "seedSchoolsAndBoards", 1) /\ inst[i].snap = TRUE
  /\ LET m == markMigrationComplete(db, "seed_schools_and_boards", i, "none")
     IN  /\ db' = m.db
         /\ Goes(i, "seedSchoolsAndBoards", m.thrown)
  /\ UNCHANGED buckets
  /\ ConcFrame

\* SELECT id FROM users WHERE id = HARDCODED_USER_ID
AdminSelect(i) ==
  /\ AtStmt(i, "seedHardcodedAdminUser", 0)
  /\ IF ~Has(db, "users")
       THEN Goes(i, "seedHardcodedAdminUser", TRUE)
       ELSE IF \E u \in db.users : u.id = HARDCODED_USER_ID
         THEN Goes(i, "seedHardcodedAdminUser", FALSE)
         ELSE Reads(i, 1, FALSE)
  /\ UNCHANGED <<db, buckets>>
  /\ ConcFrame

\* INSERT INTO users ... ON CONFLICT (id) DO NOTHING
AdminInsert(i) ==
  /\ AtStmt(i, "seedHardcodedAdminUser", 1)
  /\ IF AdminInsertFails(db, "none")
       THEN /\ db' = db
            /\ Goes(i, "seedHardcodedAdminUser", TRUE)
       ELSE /\ db' = [db EXCEPT !.users = InsertById(@, {AdminUser})]
            /\ Goes(i, "seedHardcodedAdminUser", FALSE)
  /\ UNCHANGED buckets
  /\ ConcFrame

\* SELECT COUNT(*) as count FROM users
AssignCountUsers(i) ==
  /\ AtStmt(i, "assignUsersToSchools", 0)
  /\ IF ~Has(db, "users")
       THEN Goes(i, "assignUsersToSchools", TRUE)
       ELSE IF db.users = {}
         THEN Goes(i, "assignUsersToSchools", FALSE)
         ELSE Reads(i, 1, Cardinality(db.users))
  /\ UNCHANGED <<db, buckets>>
  /\ ConcFrame

\* SELECT COUNT(*) of the users without a user_schools row
AssignCountOrphans(i) ==
  /\ AtStmt(i, "assignUsersToSchools", 1)
  /\ IF ~Has(db, "user_schools")
       THEN Goes(i, "assignUsersToSchools", TRUE)
       ELSE IF OrphanedUsers(db) = {}
         THEN Goes(i, "assignUsersToSchools", FALSE)
         ELSE Reads(i, 2, Cardinality(OrphanedUsers(db)))
  /\ UNCHANGED <<db, buckets>>
  /\ ConcFrame

\* INSERT INTO user_schools ... SELECT: the SELECT reads the rows committed
\* when the statement starts
AssignSelect(i) ==
  /\ AtStmt(i, "assignUsersToSchools", 2)
  /\ IF Has(db, "schools")
       THEN Reads(i, 3, AssignmentRows(db))
       ELSE Goes(i, "assignUsersToSchools", TRUE)
  /\ UNCHANGED <<db, buckets>>
  /\ ConcFrame

\* ... and the rows it selected are inserted and committed
AssignInsert(i) ==
  /\ AtStmt(i, "assignUsersToSchools", 3)
  /\ db' = [db EXCEPT !.userSchools = InsertLinks(@, inst[i].snap)]
  /\ Goes(i, "assignUsersToSchools", FALSE)
  /\ UNCHANGED buckets
  /\ ConcFrame

\* an empty database; the base schema with no row, or with two users and
\* no school; a store after a complete run with the default schools
ConcDBs ==
  { InitDB(FALSE, {}, FALSE, "empty"),
    InitDB(TRUE, LegacyRoleLabels, FALSE, "empty"),
    InitDB(TRUE, LegacyRoleLabels, FALSE, "usersOnly"),
    InitDB(TRUE, SchemaRoleLabels, FALSE, "usersOnly"),
    InitDB(TRUE, LegacyRoleLabels, TRUE, "seeded") }

ConcInit ==
  /\ db \in ConcDBs
  /\ buckets = {}
  /\ pc = "idle"
  /\ run = 0
  /\ outcome = "none"
  /\ faults = 0
  /\ started = << >>
  /\ log = [s \in Steps |-> NotAttempted]
  /\ ensured = FALSE
  /\ prev = [db |-> db, clean |-> FALSE, faults |-> 0]
  /\ proc = NoProcess
  /\ inst = NoInstances

ConcNext ==
  \E i \in Instances :
    \/ ConcStart(i)
    \/ ConcEnsureMigrationTable(i)
    \/ ConcStep(i)
    \/ SeedCountSchools(i)
    \/ SeedInsertBoards(i)
    \/ SeedInsertSchools(i)
    \/ SeedMark(i)
    \/ AdminSelect(i)
    \/ AdminInsert(i)
    \/ AssignCountUsers(i)
    \/ AssignCountOrphans(i)
    \/ AssignSelect(i)
    \/ AssignInsert(i)

ConcSpec == ConcInit /\ [][ConcNext]_vars

\* ------------------------------------------------------------------ claims
Attempted(s) == log[s].state # "NOT_ATTEMPTED"

DeclaredAfter(s) == { t \in Steps : StepIndex(t) > StepIndex(s) }

CriticalSet == Range(CriticalSteps)

NonCriticalSet == Range(NonCriticalSteps)

StartedSet == Range(started)

\* C1: when a critical step throws, runMigrations rejects and no step
\* declared after the failing one is started in that run.
C1_CriticalFailureAborts ==
  \A s \in CriticalSet :
    log[s].state = "FAILED" =>
      /\ outcome = "rejected"
      /\ pc = "done"
      /\ \A t \in DeclaredAfter(s) : ~Attempted(t) /\ t \notin StartedSet

C1_Witness ==
  /\ log["addDrawingCategoryEnumValues"].state = "FAILED"
  /\ log["ensureSessionTable"].state = "COMPLETED"
  /\ outcome = "rejected"

\* C2: when one non-critical step throws, every other non-critical step
\* still executes in the same run.
C2_NonCriticalIsolation ==
  (pc = "done" /\ \E s \in NonCriticalSet : log[s].state = "FAILED")
    => \A t \in NonCriticalSet : Attempted(t)

\* C3: when all critical steps succeed, runMigrations resolves whatever
\* non-critical step throws; it never rejects.
C3_NonCriticalNeverEscalates ==
  (ensured /\ \A s \in CriticalSet : log[s].state = "COMPLETED")
    => /\ outcome # "rejected"
       /\ pc = "done" => outcome = "resolved"

C3_Witness ==
  /\ pc = "done"
  /\ outcome = "resolved"
  /\ \A s \in CriticalSet : log[s].state = "COMPLETED"
  /\ \E s \in NonCriticalSet : log[s].state = "FAILED"

\* C4: when the tracking-table query of hasMigrationRun fails, the step it
\* guards is not skipped: its body executes.
C4_FailOpenTrackingCheck ==
  \A s \in GuardedSteps :
    (Attempted(s) /\ log[s].checkErr) => ~log[s].skipped /\ log[s].bodyRan

C4_Witness ==
  \E s \in GuardedSteps :
    /\ log[s].checkErr
    /\ log[s].preTracked
    /\ log[s].bodyRan
    /\ log[s].writes > 0

\* the store without its timestamps
Untimed(d) == [d EXCEPT !.tracking = TrackedNames(d)]

\* a startup that follows one in which no statement failed, and in which
\* the store is not made to fail a statement
SecondRunAfterCleanRun == run >= 2 /\ prev.clean /\ faults = prev.faults

C6_TrackedNameSkipsBody ==
  \A s \in TrackedSteps :
    (Attempted(s) /\ log[s].preTracked) => ~log[s].bodyRan /\ log[s].writes = 0

\* C6 amended: a step guarded by hasMigrationRun skips its body, with no DDL
\* and no data write and the store left as it was, when its name is in the
\* tracking table at its start and the existence check does not error.
C6_GuardedStepSkipsBody ==
  \A s \in GuardedSteps :
    (Attempted(s) /\ log[s].preTracked /\ ~log[s].checkErr) =>
      /\ log[s].skipped
      /\ ~log[s].bodyRan
      /\ log[s].writes = 0
      /\ ~log[s].changed
      /\ log[s].state = "COMPLETED"

C6_Witness ==
  /\ run = 2
  /\ log["populateInvestmentYears"].skipped
  /\ log["populateInvestmentYears"].preTracked
  /\ [name |-> "populate_investment_years", executed_at |-> 1] \in db.tracking

\* C7: the tracking table only grows: no row is deleted or changed, and no
\* name has two rows.
C7_TrackingOnlyGrows ==
  [][ /\ db.tracking \subseteq db'.tracking
      /\ \A r1, r2 \in db'.tracking : r1.name = r2.name => r1 = r2 ]_vars

C7_Witness ==
  /\ run = 2
  /\ log["seedSchoolsAndBoards"].state = "COMPLETED"
  /\ log["seedSchoolsAndBoards"].preTracked
  /\ [name |-> "seed_schools_and_boards", executed_at |-> 1] \in db.tracking

\* C8: in every step that calls markMigrationComplete, a failed tracking
\* write makes the step fail.
C8_MarkFailureFailsStep ==
  \A s \in TrackedSteps : log[s].markFailed => log[s].state = "FAILED"

\* C9: when ensureMigrationTable fails, runMigrations rejects and no step is
\* started; no step starts before the tracking table has been ensured.
C9_TrackingTableFirst ==
  /\ started # << >> => ensured /\ Has(db, MIGRATION_TRACKING_TABLE)
  /\ (run >= 1 /\ pc # "ensureMigrationTable" /\ ~ensured) =>
       /\ outcome = "rejected"
       /\ pc = "done"
       /\ started = << >>

C9_Witness ==
  /\ run >= 1
  /\ pc = "done"
  /\ ~ensured
  /\ outcome = "rejected"
  /\ ~Has(db, MIGRATION_TRACKING_TABLE)

SchemaPrerequisites ==
  {"createBaseSchema", "ensureSessionTable", "addDrawingCategoryEnumValues"}

\* C10: steps start in the declared order, each after the one before it
\* completed; createBaseSchema, ensureSessionTable and
\* addDrawingCategoryEnumValues have completed before seedSchoolsAndBoards
\* or any later step starts, and the schools and session relations exist
\* by then.
C10_DeclaredOrder ==
  /\ Len(started) <= Len(StepOrder)
  /\ \A i \in DOMAIN started :
       /\ started[i] = StepOrder[i]
       /\ i < Len(started) => log[started[i]].state = "COMPLETED"
  /\ \A s \in Steps \ SchemaPrerequisites :
       s \in StartedSet =>
         /\ \A q \in SchemaPrerequisites : log[q].state = "COMPLETED"
         /\ HasAll(db, {"schools", "session"})

C10_Witness ==
  /\ Len(started) = Len(StepOrder)
  /\ log["fixJeanAdminRole"].bodyRan
  /\ log["createBaseSchema"].bodyRan

\* the steps that read what another step creates, each with that step
Prerequisite ==
  [ assignUsersToSchools |-> "seedSchoolsAndBoards",
    addMaxStudentsToRooms |-> "createRoomsAndTerrainTables",
    populateInvestmentYears |-> "createInvestmentYearsTable",
    fixInvalidDrawingCategories |-> "addDrawingCategoryEnumValues" ]

\* C11: when a dependent step has been started, its prerequisite step was
\* started before it in this run and returned normally (it ran its body or
\* skipped it because an earlier run recorded it); no dependent step is
\* started after its prerequisite failed in the same run.
C11_PrerequisiteCompleted ==
  \A dep \in DOMAIN Prerequisite :
    dep \in StartedSet =>
      /\ log[Prerequisite[dep]].state = "COMPLETED"
      /\ \E i, j \in DOMAIN started :
           i < j /\ started[i] = Prerequisite[dep] /\ started[j] = dep

C11_Witness ==
  /\ DOMAIN Prerequisite \subseteq StartedSet
  /\ \A dep \in DOMAIN Prerequisite : log[dep].bodyRan
  /\ log["createRoomsAndTerrainTables"].bodyRan
  /\ log["seedSchoolsAndBoards"].bodyRan
  /\ \E s \in Steps : log[s].state = "FAILED"

\* C12: in either entry point a process invokes runMigrations once, and
\* registerRoutes and app.listen are called only after that invocation
\* resolved (registerRoutes before app.listen).
C12_MigrationsBeforeServing ==
  /\ proc.calls <= 1
  /\ proc.at # "none" => proc.calls = 1 /\ proc.entry \in EntryPoints
  /\ proc.routes \/ proc.listening =>
        /\ outcome = "resolved"
        /\ pc = "done"
        /\ proc.calls = 1
  /\ proc.listening => proc.routes

C12_Witness ==
  /\ proc.entry = "index-api"
  /\ proc.listening
  /\ \E s \in NonCriticalSet : log[s].state = "FAILED"

\* C13: once runMigrations has rejected, the process has not called and
\* never calls registerRoutes or app.listen.
C13_NoServingAfterRejection ==
  outcome = "rejected" =>
    /\ ~proc.routes
    /\ ~proc.listening
    /\ proc.at = "runMigrations"

C13_Witness ==
  /\ outcome = "rejected"
  /\ \E s \in CriticalSet : log[s].state = "FAILED"
  /\ proc.entry = "index"
  /\ proc.at = "runMigrations"
  /\ run = 2
  /\ prev.clean

\* C14: ensureSupabaseBucketsForSchools never throws; when something failed
\* inside it (the import, the schools query or a createBucketIfNotExists
\* call), recalculateBudgetSpentAmounts is the next step started in the same
\* run and runMigrations does not reject.
C14_BucketErrorsContained ==
  LET b == log["ensureSupabaseBucketsForSchools"]
  IN  /\ b.state # "FAILED"
      /\ b.errors > 0 =>
            /\ b.state = "COMPLETED"
            /\ outcome # "rejected"
            /\ \/ pc = "recalculateBudgetSpentAmounts"
               \/ Attempted("recalculateBudgetSpentAmounts")
            /\ pc = "done" => outcome = "resolved"

C14_Witness ==
  /\ log["ensureSupabaseBucketsForSchools"].errors > 0
  /\ ~log["ensureSupabaseBucketsForSchools"].bodyRan
  /\ log["recalculateBudgetSpentAmounts"].bodyRan
  /\ log["recalculateBudgetSpentAmounts"].state = "COMPLETED"
  /\ db.schools # {}
  /\ pc = "done"
  /\ outcome = "resolved"

\* C15: a first runMigrations on an empty database in which the store fails
\* no statement from outside ends with exactly the 2 fixed boards, exactly
\* the 9 fixed schools and the admin user with the fixed id.
C15_FreshBootstrap ==
  run = 1 /\ prev.db = EmptyDB /\ pc = "done" /\ faults = 0 =>
    /\ db.boards = SeedBoards
    /\ db.schools = SeedSchools
    /\ \E u \in db.users : u.id = HARDCODED_USER_ID

\* in StepSpec: step s was called on the store prev.db and nothing after it
Called(s) == started = <<s>>

LinksOfUser(d, uid) == { us \in d.userSchools : us.user_id = uid }

DefaultLinks(d, uid) == { us \in LinksOfUser(d, uid) : us.is_default }

\* C16: when assignUsersToSchools returns normally on a store whose schools
\* relation is not empty and in which every user has at most one default
\* link, every user has a link and exactly one default link afterwards.
C16_OneDefaultPerUser ==
  /\ Called("assignUsersToSchools")
  /\ log["assignUsersToSchools"].state = "COMPLETED"
  /\ prev.db.schools # {}
  /\ \A u \in prev.db.users : Cardinality(DefaultLinks(prev.db, u.id)) <= 1
  => \A u \in db.users :
       /\ LinksOfUser(db, u.id) # {}
       /\ Cardinality(DefaultLinks(db, u.id)) = 1

\* the store d with its tracking rows left out of the comparison
WithoutTracking(d) == [d EXCEPT !.tracking = {}]

\* C17: seedSchoolsAndBoards called while schools holds a row leaves boards,
\* schools and every other relation as they were and at most adds a
\* tracking row of its own name (which it does when it returns normally);
\* it changes boards or schools only when schools was empty.
C17_SeedOnlyWhenEmpty ==
  Called("seedSchoolsAndBoards") =>
    /\ prev.db.schools # {} =>
          /\ db.boards = prev.db.boards
          /\ db.schools = prev.db.schools
          /\ WithoutTracking(db) = WithoutTracking(prev.db)
          /\ prev.db.tracking \subseteq db.tracking
          /\ \A t \in db.tracking \ prev.db.tracking :
                t.name = "seed_schools_and_boards"
          /\ ~log["seedSchoolsAndBoards"].bodyRan
          /\ log["seedSchoolsAndBoards"].state = "COMPLETED" =>
                "seed_schools_and_boards" \in TrackedNames(db)
    /\ (db.boards # prev.db.boards \/ db.schools # prev.db.schools) =>
          prev.db.schools = {}

C17_Witness ==
  /\ Called("seedSchoolsAndBoards")
  /\ prev.db.schools = {AlphaSchool}
  /\ prev.db.boards = {}
  /\ "seed_schools_and_boards" \notin TrackedNames(prev.db)
  /\ "seed_schools_and_boards" \in TrackedNames(db)
  /\ log["seedSchoolsAndBoards"].state = "COMPLETED"

\* the body of guarded step s ran to its end (the mark after it may have
\* failed)
BodyCompleted(s) ==
  log[s].bodyRan /\ (log[s].state = "COMPLETED" \/ log[s].markFailed)

\* the maintenance_history rows of d that count for budget category bc
CountedFor(d, bc) ==
  { mh \in d.maintenanceHistory :
      /\ mh.school_id = bc.school_id
      /\ ~IsNull(mh.cost)
      /\ Lower(mh.category) = Lower(bc.name) }

\* C18: when recalculateBudgetSpentAmounts has completed its body, every
\* budget_categories row has spent equal to the sum of the costs of the
\* maintenance_history rows of its school whose category is its name
\* ignoring case and whose cost is not NULL (0 when there is none); no row
\* is added, removed or changed in another column, and no other relation
\* changes (the tracking table gets the step's own name after the body).
C18_SpentIsSumOfCosts ==
  Called("recalculateBudgetSpentAmounts")
    /\ BodyCompleted("recalculateBudgetSpentAmounts") =>
    /\ \A bc \in db.budgetCategories :
         /\ <<bc.spent>> = SumCost(CountedFor(prev.db, bc), 0)
         /\ CountedFor(prev.db, bc) = {} => bc.spent = 0
         /\ \E old \in prev.db.budgetCategories :
              bc = [old EXCEPT !.spent = bc.spent]
    /\ Cardinality(db.budgetCategories)
         = Cardinality(prev.db.budgetCategories)
    /\ [WithoutTracking(db) EXCEPT !.budgetCategories = {}]
         = [WithoutTracking(prev.db) EXCEPT !.budgetCategories = {}]
    /\ \A t \in db.tracking \ prev.db.tracking :
         t.name = "recalculate_budget_spent_amounts"

C18_Witness ==
  /\ Called("recalculateBudgetSpentAmounts")
  /\ log["recalculateBudgetSpentAmounts"].state = "COMPLETED"
  /\ log["recalculateBudgetSpentAmounts"].bodyRan
  /\ \E bc \in db.budgetCategories :
       /\ bc.name = "HVAC" /\ bc.spent = 6
       /\ Cardinality(CountedFor(prev.db, bc)) = 3
  /\ \E bc \in db.budgetCategories : bc.name = "Dak" /\ bc.spent = 0
  /\ \E mh \in db.maintenanceHistory : IsNull(mh.cost)
  /\ \E mh \in db.maintenanceHistory : mh.category = "dak"

YearRows(d, i) == { iy \in d.investmentYears : iy.investment_id = i.id }

\* the years the claim names for an investment with a start date
CycleYears(i) ==
  LET startYear == Val(i.start_date)
  IN  IF i.is_cyclic /\ ~IsNull(i.cycle_years) /\ Val(i.cycle_years) > 0
        THEN { y \in startYear .. startYear + 30 :
                 (y - startYear) % Val(i.cycle_years) = 0 }
        ELSE {startYear}

\* C19: when populateInvestmentYears has completed its body, every
\* investment that had a start date and no year row has exactly one row
\* (amount 0) per year startYear, startYear+c, ... up to startYear+30 when
\* it is cyclic with cycle c, and exactly one row for startYear otherwise;
\* no two rows share (investment, year); investments that had year rows or
\* have no start date keep exactly the rows they had.
C19_OneRowPerCycle ==
  Called("populateInvestmentYears")
    /\ BodyCompleted("populateInvestmentYears") =>
    /\ db.investments = prev.db.investments
    /\ \A i \in db.investments :
         IF YearRows(prev.db, i) # {} \/ IsNull(i.start_date)
           THEN YearRows(db, i) = YearRows(prev.db, i)
           ELSE /\ { iy.year : iy \in YearRows(db, i) } = CycleYears(i)
                /\ Cardinality(YearRows(db, i)) = Cardinality(CycleYears(i))
                /\ \A iy \in YearRows(db, i) : iy.amount = 0
    /\ \A x, y \in db.investmentYears :
         x.investment_id = y.investment_id /\ x.year = y.year => x = y
    /\ \A iy \in db.investmentYears :
         \E i \in db.investments : iy.investment_id = i.id
    /\ [WithoutTracking(db) EXCEPT !.investmentYears = {}]
         = [WithoutTracking(prev.db) EXCEPT !.investmentYears = {}]

C19_Witness ==
  /\ Called("populateInvestmentYears")
  /\ log["populateInvestmentYears"].state = "COMPLETED"
  /\ \E i \in db.investments :
       /\ i.id = 1 /\ i.is_cyclic /\ i.cycle_years = <<15>>
       /\ { iy.year : iy \in YearRows(db, i) } = {2020, 2035, 2050}
       /\ YearRows(prev.db, i) = {}
  /\ \E i \in db.investments :
       i.id = 2 /\ YearRows(db, i) = YearRows(prev.db, i)
              /\ Cardinality(YearRows(db, i)) = 1
  /\ \E i \in db.investments :
       i.id = 3 /\ { iy.year : iy \in YearRows(db, i) } = {2019}

\* the result of self-idempotent step s on store d under fault f
SelfIdempotent(s, d, f) ==
  CASE s = "ensureSessionTable" -> ensureSessionTable(d, f)
    [] s = "seedHardcodedAdminUser" -> seedHardcodedAdminUser(d, f)
    [] s = "assignUsersToSchools" -> assignUsersToSchools(d, f)
    [] s = "ensureSupabaseBucketsForSchools" ->
         ensureSupabaseBucketsForSchools(d, f)

\* other contents of the tracking table of store d
TrackingVariants(d) ==
  { {}, Migrated.tracking,
    d.tracking \cup { [name |-> n, executed_at |-> 1] :
                        n \in {"seed_hardcoded_admin_user",
                               "assign_users_to_schools",
                               "ensure_supabase_buckets_for_schools",
                               "ensure_session_table"} } }

\* C20: a self-idempotent step about to be called has, on the store and on
\* any store that differs from it only in the rows of the tracking table,
\* the same outcome and the same writes (the same buckets too), and leaves
\* the tracking table of its store as it was; as long as only such steps
\* have been called, the tracking table is the one the first call started
\* on.
C20_SelfIdempotentIgnoreTracking ==
  /\ pc \in SelfIdempotentSteps =>
       \A f \in Choices(pc) : \A T \in TrackingVariants(db) :
         LET d2 == [db EXCEPT !.tracking = T]
             r1 == SelfIdempotent(pc, db, f)
             r2 == SelfIdempotent(pc, d2, f)
         IN  /\ r1.db.tracking = db.tracking
             /\ r2.db.tracking = T
             /\ WithoutTracking(r1.db) = WithoutTracking(r2.db)
             /\ [r1 EXCEPT !.db = {}] = [r2 EXCEPT !.db = {}]
             /\ BucketsCreated(db, f) = BucketsCreated(d2, f)
  /\ Range(started) \subseteq SelfIdempotentSteps =>
       db.tracking = prev.db.tracking

C20_Witness ==
  /\ started = << "seedHardcodedAdminUser", "assignUsersToSchools",
                  "ensureSupabaseBucketsForSchools" >>
  /\ \A i \in DOMAIN started :
       log[started[i]].bodyRan /\ log[started[i]].state = "COMPLETED"
  /\ AdminUser \in db.users \ prev.db.users
  /\ db.userSchools # prev.db.userSchools
  /\ buckets # {}
  /\ prev.db.tracking = {}
  /\ db.tracking = {}

\* no step of the finished run threw
NoStepThrew ==
  /\ pc = "done"
  /\ outcome = "resolved"
  /\ \A s \in Steps : log[s].state = "COMPLETED"

\* C22: after a runMigrations run in which no step throws, the tracking
\* table holds the name of every one of the 13 tracked steps.
C22_AllNamesRecorded ==
  NoStepThrew => AllMigrationNames \subseteq TrackedNames(db)

\* C23: when a statement of ensureSessionTable failed, the step threw and
\* runMigrations rejected; when the step returned normally, all three of
\* its statements were executed.
C23_SessionErrorsPropagate ==
  LET e == log["ensureSessionTable"]
  IN  /\ e.errors > 0 => e.state = "FAILED" /\ outcome = "rejected"
      /\ e.state = "COMPLETED" => e.writes = 3

\* the statements of the body of guarded step s that failed in this run
BodyErrors(s) ==
  log[s].errors - (IF log[s].checkErr THEN 1 ELSE 0)
                - (IF log[s].markFailed THEN 1 ELSE 0)

\* C24: a guarded step whose name was not recorded when it started has its
\* name in the tracking table only if its body ran and none of the body's
\* statements failed; when it threw, its name is not there; and a step
\* that starts without its name recorded runs its body.
C24_MarkOnlyAfterBody ==
  \A s \in GuardedSteps :
    Attempted(s) /\ ~log[s].preTracked =>
      /\ log[s].bodyRan
      /\ MigrationName[s] \in TrackedNames(db) =>
            /\ log[s].state = "COMPLETED"
            /\ BodyErrors(s) = 0
      /\ log[s].state = "FAILED" => MigrationName[s] \notin TrackedNames(db)

\* C25: neither addDrawingCategoryEnumValues nor extendRoleEnumForRbac sends
\* an ADD VALUE for a label its enum already has, and once either step has
\* run its body and returned normally each of its labels is in the enum.
C25_AddOnlyAbsentLabels ==
  /\ pc = "addDrawingCategoryEnumValues" =>
       AddValueIssued(pc, db) \cap db.drawingEnum = {}
  /\ pc = "extendRoleEnumForRbac" =>
       AddValueIssued(pc, db) \cap db.roleEnum = {}
  /\ log["addDrawingCategoryEnumValues"].bodyRan
       /\ log["addDrawingCategoryEnumValues"].state = "COMPLETED" =>
         Range(enumValues) \subseteq db.drawingEnum
  /\ log["extendRoleEnumForRbac"].bodyRan
       /\ log["extendRoleEnumForRbac"].state = "COMPLETED" =>
         {"directeur", "medewerker"} \subseteq db.roleEnum

\* the number of hyphens of str
RECURSIVE Hyphens(_)
Hyphens(str) ==
  IF Len(str) = 0
    THEN 0
    ELSE (IF SubSeq(str, 1, 1) = "-" THEN 1 ELSE 0)
           + Hyphens(SubSeq(str, 2, Len(str)))

\* name is "school-" followed by the characters of id other than hyphens
NamesSchool(name, id) ==
  /\ SubSeq(name, 1, 7) = "school-"
  /\ Hyphens(SubSeq(name, 8, Len(name))) = 0
  /\ Len(name) = 7 + Len(id) - Hyphens(id)
  /\ SubSeq(name, 8, 15) = SubSeq(id, 1, 8)

\* C26: once ensureSupabaseBucketsForSchools has read the school rows it
\* calls createBucketIfNotExists exactly once for every row, with the name
\* "school-" followed by the id without its hyphens, also when the first
\* call fails; afterwards a bucket is missing for at most the one school
\* whose call failed.
C26_OneCallPerSchool ==
  /\ pc = "ensureSupabaseBucketsForSchools" =>
       \A f \in {"none", "bucket"} :
         LET calls == BucketCalls(db, f)
         IN  /\ Len(calls) = Cardinality(db.schools)
             /\ \A sch \in db.schools :
                  \E i \in DOMAIN calls :
                    /\ NamesSchool(calls[i], sch.id)
                    /\ \A j \in DOMAIN calls : calls[j] = calls[i] => j = i
  /\ Called("ensureSupabaseBucketsForSchools")
       /\ log["ensureSupabaseBucketsForSchools"].bodyRan =>
         /\ \A n \in buckets : \E sch \in db.schools : NamesSchool(n, sch.id)
         /\ Cardinality({ sch \in db.schools :
                            ~\E n \in buckets : NamesSchool(n, sch.id) })
              = log["ensureSupabaseBucketsForSchools"].errors

\* the first of three calls failed and the two later calls were made
C26_Witness ==
  /\ Called("ensureSupabaseBucketsForSchools")
  /\ log["ensureSupabaseBucketsForSchools"].errors = 1
  /\ db.schools = UnitSchools
  /\ buckets = {"school-7ffa2b7b2d71", "school-3aaf933c1b0f"}

\* C28: when a statement of recalculateBudgetSpentAmounts has failed, the
\* budget_categories rows are the ones the step started on, and after the
\* step no store has every spent at 0 while the counted costs of some
\* budget category sum to something else.
C28_RecalculationAtomic ==
  Called("recalculateBudgetSpentAmounts") =>
    /\ BodyErrors("recalculateBudgetSpentAmounts") > 0 =>
         db.budgetCategories = prev.db.budgetCategories
    /\ (\A bc \in db.budgetCategories : bc.spent = 0) =>
         \A bc \in db.budgetCategories :
           SumCost(CountedFor(db, bc), 0) = << 0 >>

\* C29: populateInvestmentYears never stays in its year loop: whatever
\* cycle_years the selected investments hold, the step returns or throws
\* and the runner goes on.
C29_PopulateTerminates == pc # "hung"

\* the non-critical steps that record their name
NonCriticalTracked == NonCriticalSet \cap TrackedSteps

\* step s called on store d with no statement of the store failing
StepOn(s, d) == RunStep(s, d, run)

\* the body of step s would succeed on the store as it is
WouldSucceed(s) ==
  /\ Has(db, MIGRATION_TRACKING_TABLE)
  /\ ~StepOn(s, [db EXCEPT !.tracking =
                   { t \in @ : t.name # MigrationName[s] }]).thrown

NoCriticalFailure == \A c \in CriticalSet : log[c].state # "FAILED"

\* C27: over the startups of a server whose critical steps never fail,
\* every non-critical step that records its name and whose body would
\* succeed on the store from some startup on is eventually recorded in the
\* tracking table, whatever other non-critical step keeps failing.
C27_EventuallyRecorded ==
  \A s \in NonCriticalTracked :
    ([]NoCriticalFailure /\ <>[]WouldSucceed(s))
      => <>(MigrationName[s] \in TrackedNames(db))

\* C30: with two instances in assignUsersToSchools at the same time, no
\* (user, school) pair has more than one user_schools row and no user has
\* more than one row marked is_default, whatever the interleaving.
C30_NoDuplicateLinks ==
  /\ \A a \in db.userSchools : \A b \in db.userSchools :
       a.user_id = b.user_id /\ a.school_id = b.school_id => a = b
  /\ \A u \in db.users : Cardinality(DefaultLinks(db, u.id)) <= 1

\* every instance has left runMigrations
AllReturned == \A i \in Instances : inst[i].at = "done"

\* C21: when two instances run runMigrations at the same time on a
\* database that holds nothing, then once both have returned the store
\* has 2 boards, 9 schools, one admin user row and at most one tracking
\* row for each name, and in neither instance seedSchoolsAndBoards (with
\* its markMigrationComplete) or seedHardcodedAdminUser threw.
C21_SeedRaceTolerated ==
  prev.db = EmptyDB /\ AllReturned =>
    /\ Cardinality(db.boards) = 2
    /\ Cardinality(db.schools) = 9
    /\ Cardinality({ u \in db.users : u.id = HARDCODED_USER_ID }) = 1
    /\ \A n \in TrackedNames(db) :
         Cardinality({ t \in db.tracking : t.name = n }) = 1
    /\ \A i \in Instances :
         /\ inst[i].out = "resolved"
         /\ inst[i].threw \cap {"seedSchoolsAndBoards",
                                "seedHardcodedAdminUser"} = {}

====
